---- MODULE Spec2Model ----
(***************************************************************************)
(* Mention-to-reply pipeline of the Bluesky bot (process.py and the        *)
(* modules it drives), modelled as a state machine.  One poll cycle        *)
(* (BotProcessor.process_mentions) walks the list of mention URIs and      *)
(* runs BotProcessor.process_single_mention on each; the position inside   *)
(* process_single_mention is the variable pc.                              *)
(***************************************************************************)
EXTENDS Integers, Sequences, FiniteSets, TLC

(***************************************************************************)
(* Bounds of the model.                                                    *)
(***************************************************************************)
MaxCycles == 2
MaxBatch == 2

(***************************************************************************)
(* Program constants.                                                      *)
(***************************************************************************)
ReplyLimit == 300
max_retries == 3

(***************************************************************************)
(* The posts on the network.  r1 is a root post with the replies p1 and    *)
(* m1; m2 replies to p1; m3 is a root post that itself mentions the bot.   *)
(***************************************************************************)
NoPost == "none"
Posts == {"r1", "p1", "m1", "m2", "m3"}
Mentions == {"m1", "m2", "m3"}
Parent == [p \in Posts |->
             CASE p = "m1" -> "r1"
               [] p = "p1" -> "r1"
               [] p = "m2" -> "p1"
               [] OTHER -> NoPost]
Did == [p \in Posts |->
          CASE p \in {"r1", "m3"} -> "did:plc:a"
            [] p \in {"p1", "m1"} -> "did:plc:b"
            [] OTHER -> "did:plc:c"]

(* An at:// URI, kept as the list of its '/'-separated parts:              *)
(* at://did/app.bsky.feed.post/rkey splits into at:, "", did, nsid, rkey.  *)
Uri(p) == <<"at:", "", Did[p], "app.bsky.feed.post", p>>
PostOf(u) == u[Len(u)]
NoUri == <<>>

(* Ground truth used by the properties: the topmost ancestor of a post.    *)
RECURSIVE Root(_)
Root(p) == IF Parent[p] = NoPost THEN p ELSE Root(Parent[p])
Roots == {Root(p) : p \in Posts}

(***************************************************************************)
(* get_post_thread.py                                                      *)
(***************************************************************************)
(* The getPostThread response for a post: the post and, nested, its parent *)
(* chain.                                                                  *)
RECURSIVE ThreadResponse(_)
ThreadResponse(p) ==
  IF Parent[p] = NoPost
    THEN [post |-> p, parent |-> <<>>]
    ELSE [post |-> p, parent |-> <<ThreadResponse(Parent[p])>>]

process_post_info(post_view) == [uri |-> Uri(post_view)]

Reverse(s) == [i \in 1..Len(s) |-> s[Len(s) + 1 - i]]

(* Variant: an `if` in place of the `while`, only the direct parent.        *)
WalkParentsOnce(current) ==
  IF current.parent = <<>>
    THEN <<>>
    ELSE <<process_post_info(current.parent[1].post)>>

(* The while loop of extract_thread_structure: parents, newest first.      *)
RECURSIVE WalkParents(_)
WalkParents(current) ==
  IF current.parent = <<>>
    THEN <<>>
    ELSE <<process_post_info(current.parent[1].post)>>
           \o WalkParents(current.parent[1])

(* Variant: parent_posts left newest first (the reverse() forgotten).      *)
extract_thread_structure_unreversed(thread_response) ==
  [main_post |-> process_post_info(thread_response.post),
   parent_posts |-> WalkParents(thread_response)]

extract_thread_structure(thread_response) ==
  [main_post |-> process_post_info(thread_response.post),
   parent_posts |-> Reverse(WalkParents(thread_response))]

NoThread == [main_post |-> [uri |-> NoUri], parent_posts |-> <<>>]

(* The file save_thread_json writes to: threads/<did>/<rkey>.json          *)
ThreadFilePath(thread_structure) ==
  LET uri_to_use == IF Len(thread_structure.parent_posts) > 0
                      THEN thread_structure.parent_posts[1].uri
                      ELSE thread_structure.main_post.uri
  IN <<uri_to_use[3], uri_to_use[Len(uri_to_use)]>>

(* Variant: an existing thread file is written over.                       *)
save_thread_json_overwriting(files, thread_structure) == TRUE

(* save_thread_json: refuses (returns False) when the file exists.         *)
save_thread_json_ok(files, thread_structure) ==
  ThreadFilePath(thread_structure) \notin files

(***************************************************************************)
(* process.py helpers                                                      *)
(***************************************************************************)
(* Variant: the nearest parent in place of the topmost one.                *)
get_root_post_uri_nearest(thread_structure) ==
  IF Len(thread_structure.parent_posts) > 0
    THEN thread_structure.parent_posts[Len(thread_structure.parent_posts)].uri
    ELSE thread_structure.main_post.uri

get_root_post_uri(thread_structure) ==
  IF Len(thread_structure.parent_posts) > 0
    THEN thread_structure.parent_posts[1].uri
    ELSE thread_structure.main_post.uri

Lines(file) == {file[i] : i \in 1..Len(file)}

is_thread_processed(file, root) == root \in Lines(file)

(* Variant: the file opened with mode 'w' instead of 'a'.                   *)
mark_thread_processed_truncating(file, root) == <<root>>

mark_thread_processed(file, root) == Append(file, root)

(* Variant: the reply addressed to the thread root.                        *)
ReplyTargetRoot(mention, root) == root

(* The first argument of post_reply at process.py line 207.                *)
ReplyTarget(mention, root) == mention

(* Variant: the guard off by one.                                          *)
TooLongOffByOne(len) == len >= ReplyLimit

(* The length guard of BlueskyReplier.post_reply.                          *)
TooLong(len) == len > ReplyLimit

(* Variant: the result of post_reply is not checked either.                *)
ProceedsUncheckedReply(s, ok) == IF s \in {"video", "reply"} THEN TRUE ELSE ok

(* process_single_mention goes on after stage s iff its check of the       *)
(* stage's result passes (ok); the check of video_data at line 175 passes  *)
(* for every result of process_video, which is never an empty dictionary.  *)
Proceeds(s, ok) == IF s = "video" THEN TRUE ELSE ok

(* Variant: only an absent video_url counts as no video.                    *)
NoVideoUrlNoneOnly(out) == out = "no_url"

(* process.py line 160, `if not video_url`: None and '' are both falsy.    *)
NoVideoUrl(out) == out \in {"no_url", "empty_url"}

(* Variant: a failed mention ends the batch.                               *)
BreakAfterFailure(i, n) == n + 1

(* The loop of process_mentions: after a failed mention at position i of a *)
(* batch of n mentions, `continue` goes on with position i + 1.            *)
ContinueAfterFailure(i, n) == i + 1

(***************************************************************************)
(* What the collaborators can answer.                                      *)
(***************************************************************************)
(* check_media: raised; returned nothing or success false; succeeded with   *)
(* post_info.video_url absent (None), empty, or a URL.                     *)
MediaOutcomes == {"raise", "fail", "no_url", "empty_url", "video"}
DownloadOutcomes == {"raise", "none", "path"}
VideoOutcomes == {"missing", "exception", "no_transcript", "ok"}
ComposeOutcomes == {"raise", "empty", "messages"}
ReplyLens == {1, ReplyLimit, ReplyLimit + 1}
(* A model answer: none = call_ai_api gave None; error = 'error' key       *)
(* present; response / friendly = length of that field, -1 when the key    *)
(* is absent.                                                              *)
AiAnswer(n, e, r, f) == [none |-> n, error |-> e, response |-> r, friendly |-> f]
AiResponses ==
  {AiAnswer(TRUE, FALSE, -1, -1), AiAnswer(FALSE, TRUE, -1, -1),
   AiAnswer(FALSE, FALSE, -1, -1), AiAnswer(FALSE, FALSE, 0, 1),
   AiAnswer(FALSE, FALSE, -1, 1), AiAnswer(FALSE, TRUE, 1, -1)}
    \cup {AiAnswer(FALSE, FALSE, l, -1) : l \in ReplyLens}

(* The answers that have no reply text at all: nothing, an 'error', or      *)
(* neither a non-empty 'response' nor a non-empty 'friendly_response'.     *)
UnusableAnswer(a) ==
  a.none \/ a.error \/ (a.response <= 0 /\ a.friendly <= 0)

(* Variant: the 'error' key of the answer is not looked at.                *)
AiFailedIgnoringError(a) ==
  a.none \/ (~a.error /\ a.response = -1 /\ a.friendly = -1)

(* process.py line 199: not ai_response or 'error' in ai_response          *)
AiFailed(a) == a.none \/ a.error \/ (a.response = -1 /\ a.friendly = -1)
(* process.py line 205: ai_response.get('response', get('friendly_response', '')) *)
FriendlyResponse(a) ==
  IF a.response # -1 THEN a.response
  ELSE IF a.friendly # -1 THEN a.friendly ELSE 0

StageOrder == <<"thread", "dedup", "media", "download", "video", "compose",
                "model", "reply", "mark">>

(***************************************************************************)
(* compose_ai_prompt.py.  A Python str is a sequence of pieces, + is \o,   *)
(* '' is <<>>; a message content is either a str or a list of parts.       *)
(***************************************************************************)
max_segments == 10
max_frames == 5
MaxSegments == 11     \* longest transcript tried
MaxShort == 2         \* longest transcript over every kind of segment
MaxCalls == 3         \* method calls on one composer

DefaultSystemMessage ==
  <<"You are a helpful assistant. Analyze the provided content and respond accordingly.">>
TranscriptPrefix == <<"Transcript:\n">>
SegmentPrefix == <<"Segment: ">>
ImagesLabel == <<"Images for analysis:">>
Whitespace == {" ", "\n", "\t"}
IsBlank(t) == \A i \in 1..Len(t) : t[i] \in Whitespace

DigitChars == <<"0", "1", "2", "3", "4", "5", "6", "7", "8", "9">>
(* str(n) of a natural number.                                             *)
RECURSIVE Decimal(_)
Decimal(n) ==
  IF n < 10 THEN <<DigitChars[n + 1]>>
  ELSE Decimal(n \div 10) \o <<DigitChars[(n % 10) + 1]>>

Text(t) == [list |-> FALSE, text |-> t, items |-> <<>>]
Items(l) == [list |-> TRUE, text |-> <<>>, items |-> l]
TextPart(t) == [type |-> "text", text |-> t, url |-> <<>>]

(* The image files that can be opened and are not empty.                   *)
ReadableImages == {"f1.jpg", "f2.jpg", "frame_000.jpg"}
(* encode_image: the base64 text of the file, None when it cannot be read. *)
encode_image(image_path) ==
  IF image_path \in ReadableImages THEN <<"b64:", image_path>> ELSE <<>>
get_mime_type(file_path) == "image/jpeg"
ImagePart(img_path) ==
  [type |-> "image_url", text |-> <<>>,
   url |-> <<"data:", get_mime_type(img_path), ";base64,">>
             \o encode_image(img_path)]

(* Variant: the message is added also when no image could be encoded.      *)
add_frame_with_segment_unguarded(msgs, segment_frames, segment_text) ==
  IF segment_frames # <<>>
    THEN Append(msgs, [role |-> "user", content |->
           Items(<<TextPart(SegmentPrefix \o segment_text)>>
                   \o SelectSeq([i \in 1..Len(segment_frames) |->
                                  ImagePart(segment_frames[i].path)],
                                LAMBDA part : Len(part.url) > 3))])
    ELSE msgs

(* Variant: only the first image that encodes is kept.                     *)
RECURSIVE EncodedImagesFirstOnly(_)
EncodedImagesFirstOnly(paths) ==
  IF paths = <<>> THEN <<>>
  ELSE IF encode_image(Head(paths)) # <<>> THEN <<ImagePart(Head(paths))>>
  ELSE EncodedImagesFirstOnly(Tail(paths))

(* The loop over image paths of add_images_to_message and                  *)
(* add_frame_with_segment: one part per image that encodes.                *)
RECURSIVE EncodedImages(_)
EncodedImages(paths) ==
  IF paths = <<>> THEN <<>>
  ELSE (IF encode_image(Head(paths)) # <<>> THEN <<ImagePart(Head(paths))>>
                                            ELSE <<>>)
         \o EncodedImages(Tail(paths))

add_system_message(msgs, content) ==
  Append(msgs, [role |-> "system", content |-> Text(content)])

(* Variant: no default system message.                                     *)
AIPromptComposerNoDefault(system_message) ==
  IF system_message # <<>> THEN add_system_message(<<>>, system_message)
  ELSE <<>>

(* AIPromptComposer.__init__: the list of messages of a new composer.      *)
AIPromptComposer(system_message) ==
  IF system_message # <<>> THEN add_system_message(<<>>, system_message)
  ELSE add_system_message(<<>>, DefaultSystemMessage)

(* Variant: the message is put in front of the list.                       *)
add_user_message_in_front(msgs, content) ==
  <<[role |-> "user", content |-> content]>> \o msgs

add_user_message(msgs, content) ==
  Append(msgs, [role |-> "user", content |-> content])

add_images_to_message(msgs, image_paths, text_content) ==
  LET content == (IF text_content # <<>> THEN <<TextPart(text_content)>>
                                         ELSE <<>>)
                   \o EncodedImages(image_paths)
  IN IF content # <<>> THEN Append(msgs, [role |-> "user",
                                          content |-> Items(content)])
     ELSE msgs

(* A transcript file: loads is false when it cannot be opened or parsed;   *)
(* a segment is [text, frames_key, frames]: whether it has the key         *)
(* "frames", and the list under it.                                        *)
NoFile == [loads |-> FALSE, has_text |-> FALSE, text |-> <<>>, segments |-> <<>>]

(* add_transcript: the messages after the call; the data it returns is the *)
(* file when it loads, None otherwise.                                     *)
add_transcript(msgs, file) ==
  IF file.loads /\ file.has_text
    THEN add_user_message(msgs, Text(TranscriptPrefix \o file.text))
    ELSE msgs

add_frame_with_segment(msgs, segment_frames, segment_text) ==
  LET frame_paths == [i \in 1..Len(segment_frames) |-> segment_frames[i].path]
      content == <<TextPart(SegmentPrefix \o segment_text)>>
                   \o EncodedImages(frame_paths)
  IN IF frame_paths # <<>> /\ Len(content) > 1
       THEN Append(msgs, [role |-> "user", content |-> Items(content)])
       ELSE msgs

(* "frames" in segment and segment["frames"]                               *)
HasFrames(segment) == segment.frames_key /\ segment.frames # <<>>
has_embedded_frames(file) ==
  file.loads /\ \E i \in 1..Len(file.segments) : HasFrames(file.segments[i])
(* any("frames" in segment for segment in segments)                        *)
any_frames_key(file) ==
  file.loads /\ \E i \in 1..Len(file.segments) : file.segments[i].frames_key

(* range(0, len, step) cut at limit elements, as positions from 1.         *)
EvenlySelected(list, limit) ==
  IF Len(list) <= limit THEN list
  ELSE LET step == Len(list) \div limit
           n == (Len(list) + step - 1) \div step
       IN [k \in 1..(IF n < limit THEN n ELSE limit) |->
             list[(k - 1) * step + 1]]

(* The loop over selected_segments: what the calls of                      *)
(* add_frame_with_segment append, one after the other.                     *)
RECURSIVE AddSegments(_)
AddSegments(selected_segments) ==
  IF selected_segments = <<>> THEN <<>>
  ELSE add_frame_with_segment(<<>>, Head(selected_segments).frames,
                              Head(selected_segments).text)
         \o AddSegments(Tail(selected_segments))

add_frames_from_transcript_segments(msgs, file) ==
  IF ~file.loads THEN msgs
  ELSE msgs \o AddSegments(EvenlySelected(SelectSeq(file.segments, HasFrames),
                                          max_segments))

(* A frame directory: given is false when none is named or it is not a     *)
(* directory; frames are its frame_*.jpg files.                            *)
NoDir == [given |-> FALSE, frames |-> <<>>]
add_frames_from_transcript(msgs, file, frame_dir) ==
  IF has_embedded_frames(file)
    THEN add_frames_from_transcript_segments(msgs, file)
  ELSE IF ~file.loads \/ ~frame_dir.given \/ frame_dir.frames = <<>> THEN msgs
  ELSE LET selected_frames == EvenlySelected(frame_dir.frames, max_frames)
       IN add_images_to_message(msgs, selected_frames,
            <<"Key frames from video (">> \o Decimal(Len(selected_frames))
              \o <<" of ">> \o Decimal(Len(frame_dir.frames))
              \o <<" total frames):">>)

(* process_inputs(args): the messages it composes.                         *)
process_inputs(args) ==
  LET file == IF args.transcript_path THEN args.file ELSE NoFile
      m1 == AIPromptComposer(args.system_message)
      m2 == IF args.text # <<>> THEN add_user_message(m1, Text(args.text))
                                ELSE m1
      m3 == IF args.transcript_path THEN add_transcript(m2, file) ELSE m2
      m4 == IF has_embedded_frames(file)
              THEN add_frames_from_transcript_segments(m3, file)
            ELSE IF file.loads /\ args.frame_dir.given
              THEN add_frames_from_transcript(m3, file, args.frame_dir)
            ELSE m3
      m5 == IF args.image_paths # <<>>
              THEN add_images_to_message(m4, args.image_paths, ImagesLabel)
              ELSE m4
      available_frames == args.frame_dir.frames
      frame_paths == SubSeq(available_frames, 1,
                            IF Len(available_frames) < max_frames
                              THEN Len(available_frames) ELSE max_frames)
  IN IF args.frame_dir.given /\ ~any_frames_key(file)
          /\ available_frames # <<>>
       THEN add_images_to_message(m5, frame_paths,
              <<"Video frames for analysis (">> \o Decimal(Len(frame_paths))
                \o <<" of ">> \o Decimal(Len(available_frames))
                \o <<" total frames):">>)
       ELSE m5

(* The inputs tried for the composer.                                      *)
Frame(p) == [path |-> p]
Texts == {<<>>, <<" ">>, <<"a">>}
FrameLists == {<<>>, <<Frame("f1.jpg")>>, <<Frame("f1.jpg"), Frame("f2.jpg")>>,
               <<Frame("gone.jpg")>>, <<Frame("gone.jpg"), Frame("f2.jpg")>>}
SegmentKinds ==
  {[text |-> t, frames_key |-> TRUE, frames |-> f] : t \in Texts, f \in FrameLists}
    \cup {[text |-> t, frames_key |-> FALSE, frames |-> <<>>] : t \in Texts}
RECURSIVE SeqsUpTo(_, _)
SeqsUpTo(S, n) ==
  IF n = 0 THEN {<<>>}
  ELSE SeqsUpTo(S, n - 1)
         \cup {Append(q, x) : q \in {r \in SeqsUpTo(S, n - 1) : Len(r) = n - 1},
                              x \in S}
ShortTranscripts == SeqsUpTo(SegmentKinds, MaxShort)
(* n segments with distinct texts, those of F with one frame each.         *)
LongTranscript(n, F) ==
  [i \in 1..n |-> [text |-> <<"s">> \o Decimal(i), frames_key |-> TRUE,
                   frames |-> IF i \in F THEN <<Frame("f1.jpg")>> ELSE <<>>]]
LongTranscripts ==
  UNION {{LongTranscript(n, 1..n)}
           \cup {LongTranscript(n, (1..n) \ {k}) : k \in 1..n} :
         n \in (MaxShort + 1)..MaxSegments}
LoadedFile(h, segs) ==
  [loads |-> TRUE, has_text |-> h, text |-> IF h THEN <<"T">> ELSE <<>>,
   segments |-> segs]
Dirs == {NoDir, [given |-> TRUE, frames |-> <<>>],
         [given |-> TRUE, frames |-> <<"frame_000.jpg">>]}
NoArgs == [system_message |-> <<>>, text |-> <<>>, transcript_path |-> FALSE,
           file |-> NoFile, image_paths |-> <<>>, frame_dir |-> NoDir]
(* Every combination of the arguments, over transcripts of one segment.    *)
CallFiles ==
  {NoFile} \cup {LoadedFile(h, q) : h \in BOOLEAN, q \in SeqsUpTo(SegmentKinds, 1)}
AnyArgs(sm, t, tp, f, ip, d) ==
  [system_message |-> sm, text |-> t, transcript_path |-> f.loads \/ tp,
   file |-> f, image_paths |-> ip, frame_dir |-> d]
(* System text S, free text F and a transcript.                            *)
TranscriptArgs(h, q) ==
  [NoArgs EXCEPT !.system_message = <<"S">>, !.text = <<"F">>,
                 !.transcript_path = TRUE, !.file = LoadedFile(h, q)]

(***************************************************************************)
(* process_video.py.  Times are counted in half units, so that the halving *)
(* of a difference of two whole times is exact.                            *)
(***************************************************************************)
MaxTime == 2
MaxVideoSegments == 2
MaxVideoRuns == 2
MaxChunks == 2
interval == 10

(* Variant: the parentheses of the difference are missing.                 *)
middle_time_unparenthesised(start_time, end_time) ==
  start_time + end_time \div 2

(* extract_frames line 222.                                                *)
middle_time(start_time, end_time) ==
  start_time + (end_time - start_time) \div 2

NoTranscript == [ok |-> FALSE, segments |-> <<>>]
Times == {2 * k : k \in 0..MaxTime}
(* A segment as transcribe_audio builds it.                                *)
WhisperSegment(start, end) ==
  [has_times |-> TRUE, start |-> start, end |-> end, frames |-> <<>>]
(* The segments of one transcription follow each other in time.            *)
Consecutive(q) ==
  \A i \in 1..(Len(q) - 1) :
    q[i].start <= q[i].end /\ q[i].end = q[i + 1].start
                          /\ q[i + 1].start <= q[i + 1].end
WhisperTranscripts ==
  {[ok |-> TRUE, segments |-> q] :
     q \in {r \in SeqsUpTo({WhisperSegment(a, b) : a, b \in Times},
                           MaxVideoSegments) : Consecutive(r)}}

(* process_video lines 295-300: the result dict before any step.  A path   *)
(* is TRUE, None is FALSE.                                                 *)
NoResult == [audio_path |-> FALSE, transcript_path |-> FALSE, frame_paths |-> <<>>]

(* Variant: the transcript file is never looked for.                       *)
exists_ignored(file) == FALSE

(* transcribe_audio line 122, os.path.exists(transcript_path).             *)
exists(file) == file.ok

(* Variant: no audio ends the call.                                        *)
AfterAudioAborting(audio_path) == IF audio_path THEN "transcribe" ELSE "idle"

(* process_video lines 320-330: transcription needs the audio file, the    *)
(* frames do not.                                                          *)
AfterAudio(audio_path) == IF audio_path THEN "transcribe" ELSE "frames"

(* extract_frames: frame_paths holds the path of every entry of            *)
(* segment_frames, lines 238-245 and 265-272.                              *)
frame_paths(frames) == [k \in 1..Len(frames) |-> frames[k].frame_path]

(* The entry extract_frames appends for segment i (counted from 0).        *)
SegmentFrame(i, segment) ==
  [segment_index |-> i,
   time_sec |-> middle_time(segment.start, segment.end),
   frame_path |-> <<i, middle_time(segment.start, segment.end)>>]

(* Variant: every frame is put into the first segment.                     *)
RECURSIVE AttachFramesToFirst(_, _)
AttachFramesToFirst(segments, frame_infos) ==
  IF frame_infos = <<>> THEN segments
  ELSE LET frame_info == Head(frame_infos)
       IN AttachFramesToFirst(
            IF segments # <<>>
              THEN [segments EXCEPT ![1].frames =
                      Append(@, [path |-> frame_info.frame_path,
                                 time |-> frame_info.time_sec])]
              ELSE segments,
            Tail(frame_infos))

(* process_video lines 347-363: the frames put into their segments.        *)
RECURSIVE AttachFrames(_, _)
AttachFrames(segments, frame_infos) ==
  IF frame_infos = <<>> THEN segments
  ELSE LET frame_info == Head(frame_infos)
           segment_index == frame_info.segment_index
       IN AttachFrames(
            IF segment_index # -1 /\ segment_index < Len(segments)
              THEN [segments EXCEPT ![segment_index + 1].frames =
                      Append(@, [path |-> frame_info.frame_path,
                                 time |-> frame_info.time_sec])]
              ELSE segments,
            Tail(frame_infos))

(***************************************************************************)
(* check_media.py and download_video.py.  A Python value is None (Null), a *)
(* str (its pieces in order), a list, or an object with the attributes it  *)
(* has: an attribute that is missing is not in attrs, one that is present  *)
(* with the value None is Null.                                            *)
(***************************************************************************)
Null == [kind |-> "null"]
Str(s) == [kind |-> "str", s |-> s]
List(l) == [kind |-> "list", l |-> l]
Obj(attrs) == [kind |-> "obj", attrs |-> attrs]
NoAttrs == [k \in {} |-> Null]

hasattr(obj, key) == obj.kind = "obj" /\ key \in DOMAIN obj.attrs
getattr(obj, key) == obj.attrs[key]
(* bool(value), as `if not embed` and `if url` take it.                    *)
Truthy(value) ==
  CASE value.kind = "null" -> FALSE
    [] value.kind = "str" -> value.s # <<>>
    [] value.kind = "list" -> value.l # <<>>
    [] OTHER -> TRUE

(* check_media.deep_get, lines 27-37; the posts are objects, not dicts.    *)
RECURSIVE deep_get(_, _)
deep_get(current, path) ==
  IF path = <<>> THEN current
  ELSE IF hasattr(current, Head(path))
         THEN deep_get(getattr(current, Head(path)), Tail(path))
         ELSE Null

check_paths ==
  << <<"embed">>, <<"embedView">>, <<"record", "embed">>, <<"value", "embed">>,
     <<"post", "embed">>, <<"post", "embedView">>, <<"post", "record", "embed">>,
     <<"subject", "embed">>, <<"subject", "embedView">> >>

(* detect_post_media lines 57-63, and what the caller gets when it raises. *)
NoMedia == [raised |-> FALSE, has_media |-> FALSE, media_types |-> <<>>,
            media_count |-> 0, media_urls |-> <<>>, raw_media |-> <<>>]
Raised == [NoMedia EXCEPT !.raised = TRUE]

(* One hit, lines 106-111, 115-120 and 124-129.                            *)
Hit(media_info, type, medium) ==
  [media_info EXCEPT !.has_media = TRUE,
                     !.media_count = @ + 1,
                     !.media_types = Append(@, type),
                     !.media_urls = IF hasattr(medium, "url")
                                      THEN Append(@, getattr(medium, "url")) ELSE @,
                     !.raw_media = Append(@, medium)]

(* str.lower and str.startswith on the pieces of a mime type.              *)
lower(s) == [k \in 1..Len(s) |-> IF s[k] = "IMAGE/" THEN "image/"
                                 ELSE IF s[k] = "VIDEO/" THEN "video/" ELSE s[k]]
startswith(s, prefix) == s # <<>> /\ s[1] = prefix

(* Lines 132-160, one item of media_items; item.mime_type.lower() raises   *)
(* on anything but a str.                                                  *)
ProcessItem(media_info, item) ==
  LET counted == [media_info EXCEPT !.has_media = TRUE, !.media_count = @ + 1]
      typed(type, url) ==
        [counted EXCEPT !.media_types = Append(@, type),
                        !.media_urls = IF url.kind = "null" THEN @ ELSE Append(@, url),
                        !.raw_media = Append(@, item)]
      url_of(medium) == IF hasattr(medium, "url") THEN getattr(medium, "url") ELSE Null
  IN IF hasattr(item, "mime_type")
       THEN IF getattr(item, "mime_type").kind # "str" THEN Raised
            ELSE LET mime == lower(getattr(item, "mime_type").s)
                 IN IF startswith(mime, "image/") THEN typed("image", Null)
                    ELSE IF startswith(mime, "video/") THEN typed("video", Null)
                    ELSE typed("other", Null)
     ELSE IF hasattr(item, "video")
       THEN typed("video", url_of(getattr(item, "video")))
     ELSE IF hasattr(item, "image")
       THEN typed("image", url_of(getattr(item, "image")))
     ELSE IF hasattr(item, "alt") \/ hasattr(item, "aspectRatio")
       THEN typed("image", Null)
     ELSE typed("unknown", Null)

RECURSIVE ProcessItems(_, _)
ProcessItems(media_info, media_items) ==
  IF media_items = <<>> \/ media_info.raised THEN media_info
  ELSE ProcessItems(ProcessItem(media_info, Head(media_items)), Tail(media_items))

(* Lines 95-160, the body of the loop for one embed; list.extend raises on *)
(* anything but a list.                                                    *)
CheckEmbed(media_info, embed) ==
  LET source ==
        IF hasattr(embed, "media") /\ hasattr(getattr(embed, "media"), "items")
          THEN getattr(getattr(embed, "media"), "items")
        ELSE IF hasattr(embed, "images") THEN getattr(embed, "images")
        ELSE List(<<>>)
      thumb == IF hasattr(embed, "external")
                  /\ hasattr(getattr(embed, "external"), "thumb")
                 THEN Hit(media_info, "thumbnail",
                          getattr(getattr(embed, "external"), "thumb"))
                 ELSE media_info
      nested == IF hasattr(embed, "media")
                   /\ hasattr(getattr(embed, "media"), "video")
                  THEN Hit(thumb, "video", getattr(getattr(embed, "media"), "video"))
                  ELSE thumb
      direct == IF hasattr(embed, "video")
                  THEN Hit(nested, "video", getattr(embed, "video"))
                  ELSE nested
  IN IF source.kind # "list" THEN Raised
     ELSE ProcessItems(direct, source.l)

(* Lines 87-160, the loop over check_paths.                                *)
RECURSIVE CheckPaths(_, _, _)
CheckPaths(media_info, post, paths) ==
  IF paths = <<>> \/ media_info.raised THEN media_info
  ELSE LET embed == deep_get(post, Head(paths))
       IN CheckPaths(IF ~Truthy(embed) THEN media_info
                     ELSE CheckEmbed(media_info, embed),
                     post, Tail(paths))

(* Variant: the list of types is returned as it was collected.             *)
list_set_kept(l) == {l}

(* Line 171, list(set(media_types)): every element once, in the order the  *)
(* set iterates, which is any.                                             *)
list_set(l) ==
  LET elements == {l[k] : k \in 1..Len(l)}
  IN {q \in [1..Cardinality(elements) -> elements] :
        \A i, j \in 1..Len(q) : i # j => q[i] # q[j]}

(* detect_post_media: what a call can return.                              *)
detect_post_media(post) ==
  LET found == CheckPaths(NoMedia, post, check_paths)
      blob == IF hasattr(post, "record") /\ hasattr(getattr(post, "record"), "blob")
                THEN [found EXCEPT
                        !.has_media = TRUE,
                        !.media_count = @ + 1,
                        !.media_types = Append(@, "blob"),
                        !.raw_media = Append(@, getattr(getattr(post, "record"), "blob"))]
                ELSE found
  IN IF found.raised THEN {Raised}
     ELSE {[blob EXCEPT !.media_types = types] : types \in list_set(blob.media_types)}

(* A key of a path of BlueskyVideoDownloader.deep_get: a name or an index. *)
Key(name) == [attr |-> name]
Index(n) == [index |-> n]
RaisedValue == [kind |-> "raise"]

(* BlueskyVideoDownloader.deep_get, lines 100-112.  hasattr is asked first *)
(* for every key, and hasattr with an int for a name raises TypeError.     *)
RECURSIVE downloader_deep_get(_, _)
downloader_deep_get(current, path) ==
  IF path = <<>> THEN current
  ELSE LET key == Head(path)
       IN IF "index" \in DOMAIN key THEN RaisedValue
          ELSE IF hasattr(current, key.attr)
            THEN downloader_deep_get(getattr(current, key.attr), Tail(path))
          ELSE Null

video_check_paths ==
  << <<Key("embed"), Key("media"), Key("video"), Key("url")>>,
     <<Key("embed"), Key("media"), Key("items"), Index(0), Key("video"), Key("url")>>,
     <<Key("embedView"), Key("video"), Key("url")>>,
     <<Key("record"), Key("embed"), Key("media"), Key("video"), Key("url")>>,
     <<Key("record"), Key("embed"), Key("media"), Key("items"), Index(0),
       Key("video"), Key("url")>> >>

NoUrls == [direct_url |-> Null, playlist_url |-> Null]

(* extract_video_url lines 156-161: the first path with a non-empty str.   *)
RECURSIVE FirstDirectUrl(_, _)
FirstDirectUrl(post, paths) ==
  IF paths = <<>> THEN Null
  ELSE LET url == downloader_deep_get(post, Head(paths))
       IN IF url.kind = "raise" THEN RaisedValue
          ELSE IF Truthy(url) /\ url.kind = "str" THEN url
          ELSE FirstDirectUrl(post, Tail(paths))

(* extract_video_url, lines 123-171; playlist_url.split raises on anything *)
(* but a str, and every exception gives (None, None).                      *)
extract_video_url(post) ==
  LET has_playlist == hasattr(post, "embed") /\ hasattr(getattr(post, "embed"), "playlist")
      playlist_url == IF has_playlist THEN getattr(getattr(post, "embed"), "playlist")
                      ELSE Null
      direct_url == FirstDirectUrl(post, video_check_paths)
  IN IF has_playlist /\ playlist_url.kind # "str" THEN NoUrls
     ELSE IF direct_url.kind = "raise" THEN NoUrls
     ELSE [direct_url |-> direct_url, playlist_url |-> playlist_url]

(* download_post_video line 278.                                           *)
UrlToUse(video_urls) ==
  IF Truthy(video_urls.direct_url) THEN video_urls.direct_url
  ELSE video_urls.playlist_url

endswith(s, suffix) == s # <<>> /\ s[Len(s)] = suffix

(* The posts get_post returns.                                             *)
Mp4(name) == Str(<<name, ".mp4">>)
PlaylistUrl == Str(<<"playlist", ".m3u8">>)
WithUrl(url) == Obj([url |-> url])
Embeds ==
  { Obj(NoAttrs),
    Obj([images |-> List(<<Obj([alt |-> Str(<<"alt">>)])>>)]),
    Obj([images |-> List(<<Obj([mime_type |-> Str(<<"IMAGE/", "png">>)])>>)]),
    Obj([images |-> List(<<Obj([mime_type |-> Null])>>)]),
    Obj([images |-> Null]),
    Obj([external |-> Obj([thumb |-> WithUrl(Str(<<"thumb">>))])]),
    Obj([external |-> Obj([thumb |-> Null])]),
    Obj([video |-> Obj(NoAttrs)]),
    Obj([video |-> Null]),
    Obj([playlist |-> PlaylistUrl]),
    Obj([media |-> Obj([video |-> WithUrl(Mp4("a"))])]),
    Obj([media |-> Obj([video |-> WithUrl(Mp4("a"))]), playlist |-> PlaylistUrl]),
    Obj([media |-> Obj([video |-> WithUrl(Mp4("a"))]), playlist |-> Null]),
    Obj([media |-> Obj([items |-> List(<<Obj([video |-> WithUrl(Mp4("b"))])>>)])]) }
Records ==
  {Null} \cup {Obj([embed |-> e]) : e \in Embeds}
         \cup {Obj([blob |-> Obj(NoAttrs)]), Obj([embed |-> Null, blob |-> Null])}
Optional(name, values) == {NoAttrs} \cup {name :> v : v \in values}
MediaPosts ==
  {Obj(e @@ v @@ r) :
     e \in Optional("embed", Embeds \cup {Null}),
     v \in Optional("embedView", {Obj([video |-> WithUrl(Mp4("c"))])}),
     r \in Optional("record", Records)}
NoMediaPost == Null

(***************************************************************************)
(* ai_api_call.py                                                          *)
(***************************************************************************)
MaxMessages == 3

JsonFormat ==
  <<"Your response must be a valid JSON object with the following structure: ",
    "{'friendly_response': 'your response text here', ",
    "'list_of_keywords': ['keyword1', 'keyword2', ...]}">>

(* Variant: the system message that was missing is put at the end.         *)
_add_json_instructions_at_end(msgs) ==
  LET instructed(msg) ==
        IF msg.role = "system" /\ ~msg.content.list
          THEN [role |-> "system",
                content |-> Text(msg.content.text \o <<" ">> \o JsonFormat)]
          ELSE msg
      updated_messages == [k \in 1..Len(msgs) |-> instructed(msgs[k])]
      system_found == \E k \in 1..Len(msgs) : msgs[k].role = "system"
  IN IF system_found THEN updated_messages
     ELSE Append(updated_messages,
                 [role |-> "system",
                  content |-> Text(DefaultSystemMessage \o <<" ">> \o JsonFormat)])

(* AIApiClient._add_json_instructions, lines 220-256.                      *)
_add_json_instructions(msgs) ==
  LET instructed(msg) ==
        IF msg.role = "system" /\ ~msg.content.list
          THEN [role |-> "system",
                content |-> Text(msg.content.text \o <<" ">> \o JsonFormat)]
          ELSE msg
      updated_messages == [k \in 1..Len(msgs) |-> instructed(msgs[k])]
      system_found == \E k \in 1..Len(msgs) : msgs[k].role = "system"
  IN IF system_found THEN updated_messages
     ELSE <<[role |-> "system",
             content |-> Text(DefaultSystemMessage \o <<" ">> \o JsonFormat)]>>
            \o updated_messages

(* The message lists call_ai_api is given.                                 *)
AiMessages ==
  SeqsUpTo({[role |-> "system", content |-> Text(<<"S">>)],
            [role |-> "user", content |-> Text(<<"F">>)],
            [role |-> "user", content |-> Items(<<TextPart(<<"Segment: ", "a">>),
                                                  ImagePart("f1.jpg")>>)]},
           MaxMessages)

NoOutcomes == [client |-> TRUE, parse |-> "none", fallback |-> "none"]
NoAiResult == [returned |-> FALSE, error |-> FALSE]

(***************************************************************************)
(* bot_handler.py, api/bluesky_client.py and db/database.py                *)
(***************************************************************************)
MaxMentions == 2
MaxChecks == 3        \* check_notifications cycles of one bot
MaxDepth == 2         \* nested calls the interpreter allows before RecursionError
max_attempts == 3

(* The profiles add_member is called with; the second one of did:1 has a   *)
(* new handle.                                                             *)
Members ==
  {[did |-> "did:1", handle |-> "ann"], [did |-> "did:1", handle |-> "anna"],
   [did |-> "did:2", handle |-> "bob"]}

(* The authors of the mentions.                                            *)
Authors ==
  {[did |-> "did:1", handle |-> "ann"], [did |-> "did:2", handle |-> "bob"]}

(* members.json: the list it holds, or text that json.load cannot decode.  *)
File(data) == [decodes |-> TRUE, data |-> data]
Damaged == [decodes |-> FALSE, data |-> <<>>]

(* _read_json, lines 43-52: [] for a file that is missing or not JSON.     *)
_read_json(file) == IF file.decodes THEN file.data ELSE <<>>

(* _write_json, lines 54-66, the for loop over the attempts that are left. *)
(* An attempt writes the data ("ok"), fails at open ("open", the file is   *)
(* as it was) or fails inside json.dump ("dump": open(.., 'w') has emptied *)
(* the file and what was written of the data does not decode).             *)
RECURSIVE _write_json(_, _, _)
_write_json(file, data, attempts) ==
  IF attempts = <<>> THEN [file |-> file, value |-> FALSE]
  ELSE IF Head(attempts) = "ok" THEN [file |-> File(data), value |-> TRUE]
  ELSE _write_json(IF Head(attempts) = "dump" THEN Damaged ELSE file,
                   data, Tail(attempts))

(* What the attempts of one _write_json call can do: the first one        *)
(* writes, the last one writes after two failures, all fail at open, or    *)
(* all fail and one of them inside json.dump.                              *)
WriteAttempts ==
  {<<"ok">>, <<"dump", "open", "ok">>,
   [k \in 1..max_attempts |-> "open"],
   [k \in 1..max_attempts |-> IF k = 2 THEN "dump" ELSE "open"]}

(* DatabaseHandler.is_member, lines 78-79, on the list _read_json returns. *)
is_member(members, user_did) ==
  \E k \in 1..Len(members) : members[k].did = user_did

(* DatabaseHandler.add_member, lines 92-103: the list that is written.     *)
add_member(members, user_data) ==
  IF is_member(members, user_data.did)
    THEN LET i == CHOOSE k \in 1..Len(members) :
                    /\ members[k].did = user_data.did
                    /\ \A j \in 1..(k - 1) : members[j].did # user_data.did
         IN [members EXCEPT ![i] = user_data]
    ELSE Append(members, user_data)

(* A notification of the service.                                         *)
Notification(uri, indexed_at, reason, author) ==
  [uri |-> uri, indexed_at |-> indexed_at, reason |-> reason, author |-> author]

(* get_notifications lines 49-52: the notifications indexed after the last *)
(* seen-at timestamp the client has kept.                                  *)
new_notifications(response_notifications, last_seen_at) ==
  SelectSeq(response_notifications,
            LAMBDA notification : notification.indexed_at > last_seen_at)

(* BlueskyClient.filter_mentions, lines 70-80.                             *)
filter_mentions(notifs) ==
  SelectSeq(notifs, LAMBDA n : n.reason = "mention")

NoCheck == [pc |-> "idle", checks |-> 0, depth |-> 0, lists |-> 0,
            auth_errors |-> 0, value |-> "none"]

(* Variant: the two texts are exchanged.                                   *)
response_exchanged(member, author_handle) ==
  IF member
    THEN <<"Hi @", author_handle, "! You're ", "not currently a member",
           " of SharedInventory. ",
           "To become a member and start adding items to the shared inventory, ",
           "please DM me with the text '", "join", " SharedInventory'.">>
    ELSE <<"Thanks for the mention", ", @", author_handle, "! ",
           "I've noted your post. In the future, I'll analyze your post content ",
           "and add items to the shared inventory.">>

(* process_mention lines 39-55: the text of the reply.                     *)
response(member, author_handle) ==
  IF ~member
    THEN <<"Hi @", author_handle, "! You're ", "not currently a member",
           " of SharedInventory. ",
           "To become a member and start adding items to the shared inventory, ",
           "please DM me with the text '", "join", " SharedInventory'.">>
    ELSE <<"Thanks for the mention", ", @", author_handle, "! ",
           "I've noted your post. In the future, I'll analyze your post content ",
           "and add items to the shared inventory.">>

(***************************************************************************)
(* _authenticate of BlueskyReplier, BlueskyMentionsChecker and the thread  *)
(* fetcher: the same code in the three classes.                            *)
(***************************************************************************)
retry_delay == 5
AuthClients == {"BlueskyReplier", "BlueskyMentionsChecker", "BlueskyThreadFetcher"}
NewClient == [pc |-> "new", attempt |-> 0, authenticated |-> FALSE,
              logins |-> 0, succeeded |-> FALSE, slept |-> 0]

(* Variant: the delay is made after every failed attempt.                  *)
SleepsAfterEvery(attempt_no) == attempt_no < max_retries

(* Line 67 of post_bsky_reply.py: if attempt < self.max_retries - 1.       *)
SleepsAfter(attempt_no) == attempt_no < max_retries - 1

(***************************************************************************)
(* post_bsky_reply.py: BlueskyReplier.post_reply                           *)
(***************************************************************************)
MaxReplyCalls == 2

(* _parse_at_uri, lines 148-168, on the '/'-separated parts of the URI:    *)
(* repo, collection and rkey, or nothing (None, None, None).               *)
_parse_at_uri(uri) ==
  IF ~(Len(uri) >= 3 /\ uri[1] = "at:" /\ uri[2] = "")
    THEN <<>>
    ELSE LET parts == SubSeq(uri, 3, Len(uri))
         IN IF Len(parts) # 3 THEN <<>> ELSE parts

(* Line 98, all([repo, collection, rkey]): every part is there.            *)
all_given(parts) == parts # <<>> /\ \A k \in 1..Len(parts) : parts[k] # ""

(* The parent URIs post_reply is called with.                              *)
ParentUris ==
  {Uri("m1"),
   <<"at:", "", "did:plc:b", "app.bsky.feed.post">>,
   <<"at:", "", "did:plc:b", "app.bsky.feed.post", "">>,
   <<"https:", "", "bsky.app", "profile", "m1">>}

NoReplyCall == [pc |-> "idle", calls |-> 0, authenticated |-> FALSE,
                parent_uri |-> NoUri, len |-> 0, attempt |-> 0, tries |-> 0,
                creates |-> 0, created |-> 0, slept |-> 0, value |-> FALSE]

(* Variant: the loop goes on after a record was created.                   *)
AfterAttemptRetrying(ok, attempt_no) ==
  IF attempt_no < max_retries - 1 THEN "sleep" ELSE "returned"

(* Lines 131-139: where one pass of the loop leaves post_reply.            *)
AfterAttempt(ok, attempt_no) ==
  IF ok THEN "returned"
  ELSE IF attempt_no < max_retries - 1 THEN "sleep" ELSE "returned"

(***************************************************************************)
(* unprocessed_mentions.py: the file of processed mention URIs             *)
(***************************************************************************)
MaxUris == 2          \* length of the lists of URIs the functions are given

MentionUris == {"at://a/1", "at://b/2", "at://c/3"}

(* The lists given to save_processed_mentions and                          *)
(* filter_unprocessed_mentions; a URI may come twice.                      *)
MentionLists ==
  UNION {[1..n -> MentionUris] : n \in 0..MaxUris}

(* processed_mentions.json: missing, a JSON list, other JSON, or text that *)
(* json.load cannot decode.                                                *)
NoProcessedFile == [kind |-> "missing", data |-> <<>>]
ProcessedList(data) == [kind |-> "list", data |-> data]
DamagedFile == [kind |-> "damaged", data |-> <<>>]

(* load_processed_mentions, lines 41-60: set(data) when the file holds a   *)
(* list, the empty set when it is missing, holds something else or cannot  *)
(* be decoded.                                                             *)
load_processed_mentions(file) ==
  IF file.kind = "list" THEN {file.data[k] : k \in 1..Len(file.data)} ELSE {}

(* Lines 77-80: processed = load_processed_mentions();                     *)
(* processed.update(mention_uris); what json.dump(list(processed)) writes, *)
(* in any order of the set.                                                *)
dumped(file, mention_uris) ==
  {ProcessedList(data) : data \in list_set(file.data \o mention_uris)}

(* save_processed_mentions, lines 63-89: the files it can leave and the    *)
(* value it returns.  fault tells what the call meets: the data          *)
(* directory cannot be made ("dir"), open fails ("open"), json.dump fails  *)
(* after open(.., 'w') has emptied the file ("dump"), or all goes well.    *)
save_processed_mentions(file, mention_uris, fault) ==
  IF fault = "dir" \/ fault = "open"
    THEN {[file |-> file, value |-> FALSE]}
  ELSE IF fault = "dump"
    THEN {[file |-> DamagedFile, value |-> FALSE]}
  ELSE {[file |-> written, value |-> TRUE] :
          written \in dumped(IF file.kind = "list" THEN file
                             ELSE ProcessedList(<<>>), mention_uris)}

(* filter_unprocessed_mentions, lines 92-109.                              *)
filter_unprocessed_mentions(file, mention_uris) ==
  LET processed_set == load_processed_mentions(file)
  IN SelectSeq(mention_uris, LAMBDA uri : uri \notin processed_set)

NoTrackingCall == [op |-> "none", mention_uris |-> <<>>, ok |-> FALSE,
                   unprocessed |-> <<>>]

(***************************************************************************)
(* State.                                                                  *)
(***************************************************************************)
VARIABLES
  processed,        \* lines of data/processed_threads.txt
  threadFiles,      \* the files under data/posts/threads
  replies,          \* reply records created on the network
  cycle,            \* number of poll cycles started
  mentions,         \* the list get_mentions returned in this cycle
  idx,              \* position of the for loop of process_mentions
  pc,               \* position inside process_single_mention
  outcome,          \* per position of the batch: Pending, Done or Failed
  mention_uri, thread_structure, root_uri, transcript_path,
  friendly_response, attempt,     \* locals of process_single_mention / post_reply
  sleeps,           \* time.sleep(2) calls of the current batch
  run,              \* history of the current (or last) run of process_single_mention
  ran, dirty, transient,          \* history over all runs
  messages,         \* AIPromptComposer.messages
  args,             \* the arguments process_inputs was called with
  calls,            \* method calls made on the composer
  cstate,           \* new, composing (constructed) or returned
  transcript,       \* the transcript VideoProcessor.process_video works on
  transcript_file,  \* the transcript file on disk
  segment_frames,   \* the list extract_frames builds
  seg_i,            \* position of the loop of extract_frames
  vpc,              \* position inside process_video
  vruns,            \* process_video calls on the same video
  result,           \* the result dict of process_video
  whisper_calls,    \* audio.transcriptions.create calls of this process_video
  post,             \* the post detect_post_media and download_post_video get
  media_info,       \* what detect_post_media returned
  urls,             \* what extract_video_url returned
  url_to_use,       \* local of download_post_video
  dpc,              \* position inside download_post_video
  chunks,           \* chunks written by download_video
  output_file,      \* the file at output_path: absent, partial or complete
  downloaded,       \* download_post_video returned a path
  ai_messages,      \* the messages call_ai_api was given
  updated_messages, \* the messages of the fallback completion
  api_calls,        \* calls of the model API made by call_ai_api
  ai_outcomes,      \* what the client and the two API calls did
  ai_result,        \* what call_ai_api returned
  apc,              \* position inside call_ai_api
  members_file,     \* the list in members.json
  handled,          \* the mentions process_mention was called with
  send_posts,       \* the send_post calls of reply_to_post
  added,            \* the DIDs add_member returned True for
  notifications,    \* the notifications of the bot account, newest first
  seen_at,          \* the seen-at timestamp the service keeps
  last_notification_seen_at,      \* field of BlueskyClient, 0 for None
  pending,          \* mentions the for loop of check_notifications still has
  check,            \* the running (or last) check_notifications call
  clients,          \* per Bluesky client: its fields and the position of _authenticate
  replier,          \* the running (or last) call of BlueskyReplier.post_reply
  PROCESSED_FILE,   \* data/processed_mentions.json
  saved_uris,       \* the URIs save_processed_mentions returned True for
  tracking_call     \* the last save_processed_mentions or filter_unprocessed_mentions call

disk == <<processed, threadFiles>>
locals == <<mention_uri, thread_structure, root_uri, transcript_path,
            friendly_response, attempt>>
loop == <<cycle, mentions, sleeps>>
ctl == <<idx, pc, outcome>>
hist == <<run, ran, dirty, transient>>
composer == <<messages, args, calls, cstate>>
video == <<transcript, transcript_file, segment_frames, seg_i, vpc, vruns,
           result, whisper_calls>>
media == <<post, media_info, urls, url_to_use, dpc, chunks, output_file,
           downloaded>>
ai == <<ai_messages, updated_messages, api_calls, ai_outcomes, ai_result, apc>>
bot == <<members_file, handled, send_posts, added, notifications, seen_at,
         last_notification_seen_at, pending, check>>
authentication == <<clients>>
replying == <<replier>>
tracking == <<PROCESSED_FILE, saved_uris, tracking_call>>
units == <<media, ai, bot, authentication, replying, tracking>>
aux == <<composer, video, units>>
vars == <<processed, threadFiles, replies, cycle, mentions, idx, pc, outcome,
          mention_uri, thread_structure, root_uri, transcript_path,
          friendly_response, attempt, sleeps, run, ran, dirty, transient,
          messages, args, calls, cstate,
          transcript, transcript_file, segment_frames, seg_i, vpc, vruns,
          result, whisper_calls,
          post, media_info, urls, url_to_use, dpc, chunks, output_file,
          downloaded,
          ai_messages, updated_messages, api_calls, ai_outcomes, ai_result, apc,
          members_file, handled, send_posts, added, notifications, seen_at,
          last_notification_seen_at, pending, check,
          clients,
          replier,
          PROCESSED_FILE, saved_uris, tracking_call>>
pipeline == <<disk, replies, loop, ctl, locals, hist>>
rest == <<pipeline, units>>

NoRun == [mention |-> NoPost, stages |-> <<>>, oks |-> <<>>, finished |-> FALSE,
          result |-> FALSE, fetched |-> FALSE, procAtResolve |-> FALSE,
          retry |-> FALSE, len |-> 0, rejected |-> FALSE, creates |-> 0,
          novideo |-> FALSE, unusable |-> FALSE]

Init ==
  /\ processed = <<>>
  /\ threadFiles = {}
  /\ replies = <<>>
  /\ cycle = 0
  /\ mentions = <<>>
  /\ idx = 0
  /\ pc = "idle"
  /\ outcome = <<>>
  /\ mention_uri = NoUri
  /\ thread_structure = NoThread
  /\ root_uri = NoUri
  /\ transcript_path = FALSE
  /\ friendly_response = 0
  /\ attempt = 0
  /\ sleeps = 0
  /\ run = NoRun
  /\ ran = {}
  /\ dirty = {}
  /\ transient = {}
  /\ messages = <<>>
  /\ args = NoArgs
  /\ calls = 0
  /\ cstate = "new"
  /\ transcript = NoTranscript
  /\ transcript_file = NoTranscript
  /\ segment_frames = <<>>
  /\ seg_i = 0
  /\ vpc = "idle"
  /\ vruns = 0
  /\ result = NoResult
  /\ whisper_calls = 0
  /\ post = NoMediaPost
  /\ media_info = NoMedia
  /\ urls = NoUrls
  /\ url_to_use = Null
  /\ dpc = "idle"
  /\ chunks = 0
  /\ output_file = "absent"
  /\ downloaded = FALSE
  /\ ai_messages = <<>>
  /\ updated_messages = <<>>
  /\ api_calls = 0
  /\ ai_outcomes = NoOutcomes
  /\ ai_result = NoAiResult
  /\ apc = "idle"
  /\ members_file = File(<<>>)
  /\ handled = <<>>
  /\ send_posts = <<>>
  /\ added = {}
  /\ notifications = <<>>
  /\ seen_at = 1
  /\ last_notification_seen_at = 0
  /\ pending = <<>>
  /\ check = NoCheck
  /\ clients = [c \in AuthClients |-> NewClient]
  /\ replier = NoReplyCall
  /\ PROCESSED_FILE = NoProcessedFile
  /\ saved_uris = {}
  /\ tracking_call = NoTrackingCall

(* The lists of distinct mentions get_mentions can return.                 *)
RECURSIVE Batches(_)
Batches(n) ==
  IF n = 0 THEN {<<>>}
  ELSE Batches(n - 1)
         \cup {Append(b, m) : b \in {c \in Batches(n - 1) : Len(c) = n - 1},
                              m \in Mentions}

NoDup(s) == \A i, j \in 1..Len(s) : i # j => s[i] # s[j]

(***************************************************************************)
(* process_mentions                                                        *)
(***************************************************************************)
ResetLocals ==
  /\ mention_uri' = NoUri
  /\ thread_structure' = NoThread
  /\ root_uri' = NoUri
  /\ transcript_path' = FALSE
  /\ friendly_response' = 0
  /\ attempt' = 0

(* The for loop moves to position j, or the batch is over.                 *)
Advance(j) ==
  IF j <= Len(mentions)
    THEN pc' = "thread" /\ idx' = j
    ELSE pc' = "idle" /\ idx' = 0

(* process_single_mention returns res to the loop of process_mentions.     *)
Return(res) ==
  /\ outcome' = [outcome EXCEPT ![idx] = IF res THEN "Done" ELSE "Failed"]
  /\ ResetLocals
  /\ IF res
       THEN pc' = "sleep" /\ idx' = idx
       ELSE Advance(ContinueAfterFailure(idx, Len(mentions)))

(* History: stage s was run with success ok; the run ends with res.        *)
Staged(s, ok) ==
  [run EXCEPT !.stages = Append(@, s), !.oks = Append(@, ok)]
Ended(r, res) == [r EXCEPT !.finished = TRUE, !.result = res]
TransientStages == {"download", "video", "model", "reply"}
NoteEnd(s, ok, res) ==
  /\ ran' = ran \cup {mentions[idx]}
  /\ dirty' = IF ok THEN dirty ELSE dirty \cup {Root(mentions[idx])}
  /\ transient' = IF ~res /\ s \in TransientStages
                    THEN transient \cup {mentions[idx]} ELSE transient
NoteStep(ok) ==
  /\ ran' = ran
  /\ dirty' = IF ok THEN dirty ELSE dirty \cup {Root(mentions[idx])}
  /\ transient' = transient

StartCycle(b) ==
  /\ pc = "idle"
  /\ cycle < MaxCycles
  /\ cycle' = cycle + 1
  /\ mentions' = b
  /\ outcome' = [i \in 1..Len(b) |-> "Pending"]
  /\ sleeps' = 0
  /\ IF b = <<>>
       THEN pc' = "idle" /\ idx' = 0
       ELSE pc' = "thread" /\ idx' = 1
  /\ UNCHANGED <<disk, replies, locals, hist>>
  /\ UNCHANGED aux

(***************************************************************************)
(* process_single_mention, one action per stage                            *)
(***************************************************************************)
(* Step 2, get_thread(mention_uri): fetch the thread, extract its          *)
(* structure, save it; success is the result of save_thread_json.          *)
GetThread(fetched) ==
  /\ pc = "thread"
  /\ LET m == mentions[idx]
         ts == extract_thread_structure(ThreadResponse(m))
         saved == fetched /\ save_thread_json_ok(threadFiles, ts)
         h == [NoRun EXCEPT !.mention = m, !.stages = <<"thread">>,
                            !.oks = <<saved>>, !.fetched = fetched,
                            !.procAtResolve = Uri(Root(m)) \in Lines(processed),
                            !.retry = m \in transient]
     IN /\ threadFiles' = IF saved THEN threadFiles \cup {ThreadFilePath(ts)}
                                   ELSE threadFiles
        /\ IF saved
             THEN /\ mention_uri' = Uri(m)
                  /\ thread_structure' = ts
                  /\ pc' = "dedup"
                  /\ run' = h
                  /\ NoteStep(TRUE)
                  /\ UNCHANGED <<idx, outcome, root_uri, transcript_path,
                                 friendly_response, attempt>>
             ELSE /\ Return(FALSE)
                  /\ run' = Ended(h, FALSE)
                  /\ NoteEnd("thread", fetched, FALSE)
  /\ UNCHANGED <<processed, replies, loop>>
  /\ UNCHANGED aux

(* Lines 146-150: root URI and the processed-set check.                    *)
Dedup ==
  /\ pc = "dedup"
  /\ LET root == get_root_post_uri(thread_structure)
     IN IF is_thread_processed(processed, root)
          THEN /\ Return(TRUE)
               /\ run' = Ended(Staged("dedup", TRUE), TRUE)
               /\ NoteEnd("dedup", TRUE, TRUE)
          ELSE /\ root_uri' = root
               /\ pc' = "media"
               /\ run' = Staged("dedup", TRUE)
               /\ NoteStep(TRUE)
               /\ UNCHANGED <<idx, outcome, mention_uri, thread_structure,
                              transcript_path, friendly_response, attempt>>
  /\ UNCHANGED <<disk, replies, loop>>
  /\ UNCHANGED aux

(* Step 3, lines 152-163: check_media(root_uri) and the video URL.         *)
CheckMedia(out) ==
  /\ pc = "media"
  /\ LET h == [Staged("media", out = "video")
                 EXCEPT !.novideo = out \in {"no_url", "empty_url"}]
     IN IF ~Proceeds("media", out \notin {"raise", "fail"})
          THEN /\ Return(FALSE)
               /\ run' = Ended(h, FALSE)
               /\ NoteEnd("media", FALSE, FALSE)
          ELSE IF NoVideoUrl(out)
          THEN /\ Return(TRUE)
               /\ run' = Ended(h, TRUE)
               /\ NoteEnd("media", FALSE, TRUE)
          ELSE /\ pc' = "download"
               /\ run' = h
               /\ NoteStep(out = "video")
               /\ UNCHANGED <<idx, outcome, locals>>
  /\ UNCHANGED <<disk, replies, loop>>
  /\ UNCHANGED aux

(* Step 4, lines 165-170: download_video(video_url).                       *)
Download(out) ==
  /\ pc = "download"
  /\ IF Proceeds("download", out = "path")
       THEN /\ pc' = "video"
            /\ run' = Staged("download", out = "path")
            /\ NoteStep(out = "path")
            /\ UNCHANGED <<idx, outcome, locals>>
       ELSE /\ Return(FALSE)
            /\ run' = Ended(Staged("download", FALSE), FALSE)
            /\ NoteEnd("download", FALSE, FALSE)
  /\ UNCHANGED <<disk, replies, loop>>
  /\ UNCHANGED aux

(* Step 5, lines 172-177: process_video(video_path); transcript_path is    *)
(* set in its result only when a transcript was produced.                  *)
ProcessVideo(out) ==
  /\ pc = "video"
  /\ IF Proceeds("video", out = "ok")
       THEN /\ pc' = "compose"
            /\ transcript_path' = (out = "ok")
            /\ run' = Staged("video", out = "ok")
            /\ NoteStep(out = "ok")
            /\ UNCHANGED <<idx, outcome, mention_uri, thread_structure,
                           root_uri, friendly_response, attempt>>
       ELSE /\ Return(FALSE)
            /\ run' = Ended(Staged("video", FALSE), FALSE)
            /\ NoteEnd("video", FALSE, FALSE)
  /\ UNCHANGED <<disk, replies, loop>>
  /\ UNCHANGED aux

(* Step 6, lines 179-192: compose_prompt(...) and the emptiness check.     *)
Compose(out) ==
  /\ pc = "compose"
  /\ IF Proceeds("compose", out = "messages")
       THEN /\ pc' = "model"
            /\ run' = Staged("compose", out = "messages")
            /\ NoteStep(out = "messages")
            /\ UNCHANGED <<idx, outcome, locals>>
       ELSE /\ Return(FALSE)
            /\ run' = Ended(Staged("compose", FALSE), FALSE)
            /\ NoteEnd("compose", FALSE, FALSE)
  /\ UNCHANGED <<disk, replies, loop>>
  /\ UNCHANGED aux

(* Step 7 and the choice of the reply text, lines 196-206 and 211-213.     *)
CallModel(a) ==
  /\ pc = "model"
  /\ LET usable == ~AiFailed(a) /\ FriendlyResponse(a) > 0
         h == [Staged("model", usable) EXCEPT !.unusable = UnusableAnswer(a)]
     IN IF Proceeds("model", usable)
          THEN /\ pc' = "reply"
               /\ friendly_response' = FriendlyResponse(a)
               /\ run' = h
               /\ NoteStep(usable)
               /\ UNCHANGED <<idx, outcome, mention_uri, thread_structure,
                              root_uri, transcript_path, attempt>>
          ELSE /\ Return(FALSE)
               /\ run' = Ended(h, FALSE)
               /\ NoteEnd("model", FALSE, FALSE)
  /\ UNCHANGED <<disk, replies, loop>>
  /\ UNCHANGED aux

(* Lines 207-210: post_reply returned False.                               *)
ReplyFailed(h) ==
  IF Proceeds("reply", FALSE)
    THEN /\ pc' = "mark"
         /\ run' = h
         /\ NoteStep(FALSE)
         /\ UNCHANGED <<idx, outcome, locals>>
    ELSE /\ Return(FALSE)
         /\ run' = Ended(h, FALSE)
         /\ NoteEnd("reply", FALSE, FALSE)

(* Step 8, post_reply(mention_uri, friendly_response): credentials and     *)
(* login (post_bsky_reply.py lines 187-204), then the guards of            *)
(* BlueskyReplier.post_reply (lines 84-90).  Mention URIs come from the    *)
(* notification list and always parse into repo, collection and rkey.      *)
ReplyEnter(auth) ==
  /\ pc = "reply"
  /\ LET reject == auth /\ TooLong(friendly_response)
         pass == auth /\ ~reject
         h == [Staged("reply", pass) EXCEPT !.len = friendly_response,
                                            !.rejected = reject]
     IN IF pass
          THEN /\ pc' = "reply_attempt"
               /\ attempt' = 0
               /\ run' = h
               /\ NoteStep(TRUE)
               /\ UNCHANGED <<idx, outcome, mention_uri, thread_structure,
                              root_uri, transcript_path, friendly_response>>
          ELSE ReplyFailed(h)
  /\ UNCHANGED <<disk, replies, loop>>
  /\ UNCHANGED aux

(* One pass of the retry loop of BlueskyReplier.post_reply, lines 103-142: *)
(* the record is created with root and parent both set to parent_uri.      *)
ReplyAttempt(ok) ==
  /\ pc = "reply_attempt"
  /\ LET parent_uri == ReplyTarget(mention_uri, root_uri)
     IN IF ok
          THEN /\ replies' = Append(replies,
                                [root |-> parent_uri, parent |-> parent_uri,
                                 len |-> friendly_response,
                                 mention |-> mentions[idx]])
               /\ pc' = "mark"
               /\ run' = [run EXCEPT !.creates = @ + 1]
               /\ NoteStep(TRUE)
               /\ UNCHANGED <<idx, outcome, locals>>
          ELSE /\ replies' = replies
               /\ IF attempt < max_retries - 1
                    THEN /\ attempt' = attempt + 1
                         /\ pc' = "reply_attempt"
                         /\ run' = run
                         /\ NoteStep(FALSE)
                         /\ UNCHANGED <<idx, outcome, mention_uri,
                                        thread_structure, root_uri,
                                        transcript_path, friendly_response>>
                    ELSE ReplyFailed([run EXCEPT !.oks[Len(run.oks)] = FALSE])
  /\ UNCHANGED <<disk, loop>>
  /\ UNCHANGED aux

(* Lines 215-219: mark_thread_processed(root_uri); an I/O error of the     *)
(* append is caught at line 221.                                           *)
Mark(written) ==
  /\ pc = "mark"
  /\ processed' = IF written THEN mark_thread_processed(processed, root_uri)
                             ELSE processed
  /\ Return(written)
  /\ run' = Ended(Staged("mark", written), written)
  /\ NoteEnd("mark", written, written)
  /\ UNCHANGED <<threadFiles, replies, loop>>
  /\ UNCHANGED aux

(* process_mentions line 124: the pause after a mention that succeeded.    *)
Sleep ==
  /\ pc = "sleep"
  /\ sleeps' = sleeps + 1
  /\ Advance(idx + 1)
  /\ UNCHANGED <<disk, replies, cycle, mentions, outcome, locals, hist>>
  /\ UNCHANGED aux

Step ==
  \/ \E fetched \in BOOLEAN : GetThread(fetched)
  \/ Dedup
  \/ \E out \in MediaOutcomes : CheckMedia(out)
  \/ \E out \in DownloadOutcomes : Download(out)
  \/ \E out \in VideoOutcomes : ProcessVideo(out)
  \/ \E out \in ComposeOutcomes : Compose(out)
  \/ \E a \in AiResponses : CallModel(a)
  \/ \E auth \in BOOLEAN : ReplyEnter(auth)
  \/ \E ok \in BOOLEAN : ReplyAttempt(ok)
  \/ \E written \in BOOLEAN : Mark(written)
  \/ Sleep

Next ==
  \/ pc = "idle" /\ \E b \in Batches(MaxBatch) : NoDup(b) /\ StartCycle(b)
  \/ Step

Spec == Init /\ [][Next]_vars

(* The pipeline is synchronous: once a batch is started every stage runs   *)
(* to its return.  Every step of a stage changes pc, idx or attempt.       *)
FairSpec == Spec /\ WF_<<pc, idx, attempt>>(Step)

TypeOK ==
  /\ pc \in {"idle", "thread", "dedup", "media", "download", "video",
             "compose", "model", "reply", "reply_attempt", "mark", "sleep"}
  /\ cycle \in 0..MaxCycles
  /\ idx \in 0..Len(mentions)
  /\ Len(outcome) = Len(mentions)
  /\ attempt \in 0..(max_retries - 1)
  /\ ran \subseteq Mentions
  /\ dirty \subseteq Roots
  /\ transient \subseteq Mentions
  /\ cstate \in {"new", "composing", "returned"}
  /\ calls \in 0..MaxCalls
  /\ vpc \in {"idle", "transcribe", "frames", "merge"}
  /\ whisper_calls \in 0..1
  /\ vruns \in 0..MaxVideoRuns
  /\ seg_i \in 0..Len(transcript.segments)

(***************************************************************************)
(* The prompt composer                                                     *)
(***************************************************************************)
ProcessInputs(a) ==
  /\ cstate = "new"
  /\ args' = a
  /\ messages' = process_inputs(a)
  /\ cstate' = "returned"
  /\ UNCHANGED <<calls, video, rest>>

Construct(system_message) ==
  /\ cstate = "new"
  /\ messages' = AIPromptComposer(system_message)
  /\ cstate' = "composing"
  /\ UNCHANGED <<args, calls, video, rest>>

(* A call of a method on the constructed composer.                         *)
Called(msgs) ==
  /\ cstate = "composing"
  /\ calls < MaxCalls
  /\ calls' = calls + 1
  /\ messages' = msgs
  /\ UNCHANGED <<args, cstate, video, rest>>

AddUserMessage(content) == Called(add_user_message(messages, content))
AddTranscript(file) == Called(add_transcript(messages, file))
AddFramesFromTranscriptSegments(file) ==
  Called(add_frames_from_transcript_segments(messages, file))
AddFramesFromTranscript(file, frame_dir) ==
  Called(add_frames_from_transcript(messages, file, frame_dir))
AddImagesToMessage(image_paths, text_content) ==
  Called(add_images_to_message(messages, image_paths, text_content))

ArgsSet ==
  {AnyArgs(sm, t, tp, f, ip, d) :
     sm \in {<<>>, <<"S">>}, t \in {<<>>, <<"F">>}, tp \in BOOLEAN,
     f \in CallFiles, ip \in {<<>>, <<"f1.jpg", "gone.jpg">>}, d \in Dirs}
    \cup {TranscriptArgs(h, q) :
            h \in BOOLEAN, q \in ShortTranscripts \cup LongTranscripts}

(* The transcript files the methods are called with.                       *)
MethodFiles ==
  {NoFile, LoadedFile(FALSE, <<>>),
   LoadedFile(TRUE, <<[text |-> <<"a">>, frames_key |-> TRUE,
                       frames |-> <<Frame("f1.jpg")>>]>>),
   LoadedFile(TRUE, <<[text |-> <<>>, frames_key |-> TRUE, frames |-> <<>>]>>)}

ComposerNext ==
  \/ \E a \in ArgsSet : ProcessInputs(a)
  \/ \E sm \in {<<>>, <<"S">>} : Construct(sm)
  \/ \E c \in {Text(<<"F">>), Items(<<TextPart(<<"F">>)>>)} : AddUserMessage(c)
  \/ \E f \in MethodFiles : AddTranscript(f)
  \/ \E f \in MethodFiles : AddFramesFromTranscriptSegments(f)
  \/ \E f \in MethodFiles, d \in Dirs : AddFramesFromTranscript(f, d)
  \/ \E ip \in {<<>>, <<"f1.jpg">>, <<"gone.jpg">>}, t \in {<<>>, ImagesLabel} :
       AddImagesToMessage(ip, t)

ComposerSpec == Init /\ [][ComposerNext]_vars

(***************************************************************************)
(* VideoProcessor.process_video                                            *)
(***************************************************************************)
(* Lines 307-309: the video file does not exist, the empty result.         *)
VideoMissing ==
  /\ vpc = "idle"
  /\ vruns < MaxVideoRuns
  /\ result' = NoResult
  /\ transcript' = NoTranscript
  /\ segment_frames' = <<>>
  /\ seg_i' = 0
  /\ whisper_calls' = 0
  /\ vruns' = vruns + 1
  /\ UNCHANGED <<transcript_file, vpc, composer, rest>>

(* Step 1, extract_audio: the path of the audio file, or None.             *)
ExtractAudio(audio_path) ==
  /\ vpc = "idle"
  /\ vruns < MaxVideoRuns
  /\ result' = [NoResult EXCEPT !.audio_path = audio_path]
  /\ transcript' = NoTranscript
  /\ segment_frames' = <<>>
  /\ seg_i' = 0
  /\ whisper_calls' = 0
  /\ vpc' = AfterAudio(audio_path)
  /\ UNCHANGED <<transcript_file, vruns, composer, rest>>

(* Lines 323-328: no Azure client is configured, nothing is transcribed.   *)
NoClient ==
  /\ vpc = "transcribe"
  /\ vpc' = "frames"
  /\ UNCHANGED <<transcript, transcript_file, segment_frames, seg_i, vruns,
                 result, whisper_calls, composer, rest>>

(* Step 2, transcribe_audio: the cached transcript file when there is one, *)
(* else the answer of the transcription service, or None; called tells     *)
(* whether the service was reached.                                        *)
Transcribe(t, called) ==
  /\ vpc = "transcribe"
  /\ exists(transcript_file) => t = NoTranscript /\ ~called
  /\ t.ok => called
  /\ transcript' = IF exists(transcript_file) THEN transcript_file ELSE t
  /\ transcript_file' = IF exists(transcript_file) THEN transcript_file ELSE t
  /\ whisper_calls' =
       IF exists(transcript_file) THEN whisper_calls
       ELSE whisper_calls + (IF called THEN 1 ELSE 0)
  /\ result' = [result EXCEPT !.transcript_path = transcript'.ok]
  /\ vpc' = "frames"
  /\ UNCHANGED <<segment_frames, seg_i, vruns, composer, rest>>

(* extract_frames could not open the video, or raised: no frames.          *)
ExtractNothing ==
  /\ vpc = "frames"
  /\ segment_frames' = <<>>
  /\ result' = [result EXCEPT !.frame_paths = <<>>]
  /\ vpc' = "merge"
  /\ UNCHANGED <<transcript, transcript_file, seg_i, vruns, whisper_calls,
                 composer, rest>>

(* One pass of the loop over the transcript segments, lines 217-249, and   *)
(* after the last one the return into result["frame_paths"].               *)
ExtractFrame(success) ==
  /\ vpc = "frames"
  /\ transcript.ok /\ transcript.segments # <<>>
  /\ IF seg_i < Len(transcript.segments)
       THEN LET segment == transcript.segments[seg_i + 1]
            IN /\ segment_frames' =
                    IF segment.has_times /\ success
                      THEN Append(segment_frames, SegmentFrame(seg_i, segment))
                      ELSE segment_frames
               /\ seg_i' = seg_i + 1
               /\ UNCHANGED <<vpc, result>>
       ELSE /\ success
            /\ vpc' = "merge"
            /\ result' = [result EXCEPT !.frame_paths = frame_paths(segment_frames)]
            /\ UNCHANGED <<segment_frames, seg_i>>
  /\ UNCHANGED <<transcript, transcript_file, vruns, whisper_calls, composer, rest>>

(* Lines 250-273: no segments, one frame every 10 seconds of the video.    *)
ExtractAtIntervals(duration, read) ==
  /\ vpc = "frames"
  /\ ~(transcript.ok /\ transcript.segments # <<>>)
  /\ segment_frames' =
       LET n == (duration + interval - 1) \div interval
           all == [k \in 1..n |->
                     [segment_index |-> -1, time_sec |-> 2 * (k - 1) * interval,
                      frame_path |-> <<k - 1, 2 * (k - 1) * interval>>]]
       IN SelectSeq(all, LAMBDA f : f.frame_path[1] \in read)
  /\ result' = [result EXCEPT !.frame_paths = frame_paths(segment_frames')]
  /\ vpc' = "merge"
  /\ UNCHANGED <<transcript, transcript_file, seg_i, vruns, whisper_calls,
                 composer, rest>>

(* Step 4, lines 343-372: the merge and the rewrite of the transcript file.*)
MergeFrames(saved) ==
  /\ vpc = "merge"
  /\ LET merged == IF transcript.ok /\ segment_frames # <<>>
                     THEN [transcript EXCEPT !.segments =
                             AttachFrames(@, segment_frames)]
                     ELSE transcript
     IN /\ transcript' = merged
        /\ transcript_file' =
             IF saved /\ merged.ok /\ segment_frames # <<>> THEN merged
             ELSE transcript_file
  /\ vpc' = "idle"
  /\ vruns' = vruns + 1
  /\ UNCHANGED <<segment_frames, seg_i, result, whisper_calls, composer, rest>>

(* Between two calls the transcript file is removed from the disk.         *)
RemoveTranscriptFile ==
  /\ vpc = "idle"
  /\ transcript_file.ok
  /\ vruns < MaxVideoRuns
  /\ transcript_file' = NoTranscript
  /\ UNCHANGED <<transcript, segment_frames, seg_i, vpc, vruns, result,
                 whisper_calls, composer, rest>>

VideoNext ==
  \/ VideoMissing
  \/ \E audio_path \in BOOLEAN : ExtractAudio(audio_path)
  \/ NoClient
  \/ \E t \in WhisperTranscripts \cup {NoTranscript}, called \in BOOLEAN :
       Transcribe(t, called)
  \/ ExtractNothing
  \/ \E success \in BOOLEAN : ExtractFrame(success)
  \/ \E duration \in {0, 5, 20}, read \in SUBSET {0, 1} :
       ExtractAtIntervals(duration, read)
  \/ \E saved \in BOOLEAN : MergeFrames(saved)
  \/ RemoveTranscriptFile

VideoSpec == Init /\ [][VideoNext]_vars

(***************************************************************************)
(* detect_post_media and BlueskyVideoDownloader.download_post_video        *)
(***************************************************************************)
exceptMedia == <<pipeline, composer, video, ai, bot, authentication, replying,
  tracking>>

(* check_media.py: the media of the post of this run; the calls keep no    *)
(* state from one post to the next.                                        *)
DetectPostMedia(p) ==
  /\ post = NoMediaPost
  /\ post' = p
  /\ media_info' \in detect_post_media(p)
  /\ urls' = NoUrls
  /\ url_to_use' = Null
  /\ dpc' = "idle"
  /\ chunks' = 0
  /\ output_file' = "absent"
  /\ downloaded' = FALSE
  /\ UNCHANGED exceptMedia

(* download_post_video lines 275-282, on the post get_post returned.       *)
DownloadPostVideo ==
  /\ dpc = "idle"
  /\ Truthy(post)
  /\ urls' = extract_video_url(post)
  /\ url_to_use' = UrlToUse(urls')
  /\ dpc' = IF Truthy(url_to_use') THEN "download" ELSE "returned"
  /\ UNCHANGED <<post, media_info, chunks, output_file, downloaded, exceptMedia>>

(* download_video line 249 and download_from_playlist: ffmpeg writes the   *)
(* output file; when it fails it has written nothing or a part of it.      *)
DownloadFromPlaylist(ok, left) ==
  /\ dpc = "download"
  /\ endswith(url_to_use.s, ".m3u8")
  /\ left \in (IF ok THEN {"complete"} ELSE {"absent", "partial"})
  /\ output_file' = left
  /\ downloaded' = ok
  /\ dpc' = "returned"
  /\ UNCHANGED <<post, media_info, urls, url_to_use, chunks, exceptMedia>>

(* download_video lines 255-258: the request, the status check and the     *)
(* open of the output file for writing.                                    *)
HttpGet(status) ==
  /\ dpc = "download"
  /\ ~endswith(url_to_use.s, ".m3u8")
  /\ IF status = "ok"
       THEN /\ output_file' = "partial"
            /\ dpc' = "streaming"
       ELSE /\ output_file' = output_file
            /\ dpc' = "returned"
  /\ UNCHANGED <<post, media_info, urls, url_to_use, chunks, downloaded, exceptMedia>>

(* Lines 259-260, one chunk: written, or iter_content raises.              *)
WriteChunk(ok) ==
  /\ dpc = "streaming"
  /\ chunks < MaxChunks
  /\ IF ok THEN chunks' = chunks + 1 /\ dpc' = dpc
           ELSE chunks' = chunks /\ dpc' = "returned"
  /\ UNCHANGED <<post, media_info, urls, url_to_use, output_file, downloaded, exceptMedia>>

(* Lines 262-263: the body is complete, the path is returned.              *)
DownloadCompleted ==
  /\ dpc = "streaming"
  /\ output_file' = "complete"
  /\ downloaded' = TRUE
  /\ dpc' = "returned"
  /\ UNCHANGED <<post, media_info, urls, url_to_use, chunks, exceptMedia>>

MediaNext ==
  \/ \E p \in MediaPosts : DetectPostMedia(p)
  \/ DownloadPostVideo
  \/ \E ok \in BOOLEAN, left \in {"absent", "partial", "complete"} :
       DownloadFromPlaylist(ok, left)
  \/ \E status \in {"network_error", "bad_status", "ok"} : HttpGet(status)
  \/ \E ok \in BOOLEAN : WriteChunk(ok)
  \/ DownloadCompleted

MediaSpec == Init /\ [][MediaNext]_vars

(***************************************************************************)
(* AIApiClient.call_ai_api                                                 *)
(***************************************************************************)
exceptAi == <<pipeline, composer, video, media, bot, authentication, replying,
  tracking>>

(* Lines 131-135: the call, with or without an initialized client.         *)
CallAiApi(msgs, client) ==
  /\ apc = "idle"
  /\ ai_messages' = msgs
  /\ ai_outcomes' = [NoOutcomes EXCEPT !.client = client]
  /\ IF client THEN apc' = "parse" /\ ai_result' = ai_result
               ELSE apc' = "returned" /\ ai_result' = [returned |-> TRUE, error |-> TRUE]
  /\ UNCHANGED <<updated_messages, api_calls, exceptAi>>

(* Lines 146-177, beta.chat.completions.parse: a parsed answer, a refusal, *)
(* or an exception, which leads to the fallback.                           *)
ParseCompletion(answer) ==
  /\ apc = "parse"
  /\ api_calls' = api_calls + 1
  /\ ai_outcomes' = [ai_outcomes EXCEPT !.parse = answer]
  /\ IF answer = "raise"
       THEN apc' = "fallback" /\ ai_result' = ai_result
       ELSE /\ apc' = "returned"
            /\ ai_result' = [returned |-> TRUE, error |-> answer = "refusal"]
  /\ UNCHANGED <<ai_messages, updated_messages, exceptAi>>

(* _fallback_completion, lines 184-218: chat.completions.create on the     *)
(* messages with the instructions, and json.loads of the text it returns.  *)
FallbackCompletion(answer) ==
  /\ apc = "fallback"
  /\ updated_messages' = _add_json_instructions(ai_messages)
  /\ api_calls' = api_calls + 1
  /\ ai_outcomes' = [ai_outcomes EXCEPT !.fallback = answer]
  /\ ai_result' = [returned |-> TRUE, error |-> answer # "json"]
  /\ apc' = "returned"
  /\ UNCHANGED <<ai_messages, exceptAi>>

AiNext ==
  \/ \E msgs \in AiMessages, client \in BOOLEAN : CallAiApi(msgs, client)
  \/ \E answer \in {"parsed", "refusal", "raise"} : ParseCompletion(answer)
  \/ \E answer \in {"json", "invalid_json", "raise"} : FallbackCompletion(answer)

AiSpec == Init /\ [][AiNext]_vars

(***************************************************************************)
(* BotHandler.process_mention and the members store                        *)
(***************************************************************************)
exceptBot == <<pipeline, composer, video, media, ai, authentication, replying,
  tracking>>

checking == <<notifications, seen_at, last_notification_seen_at, pending, check>>

(* DatabaseHandler.add_member, lines 91-106: read, change the list, write. *)
AddMember(user_data, attempts) ==
  /\ LET members == _read_json(members_file)
         written == _write_json(members_file, add_member(members, user_data),
                                attempts)
     IN /\ members_file' = written.file
        /\ added' = IF written.value THEN added \cup {user_data.did} ELSE added
  /\ <<members_file, added>>' # <<members_file, added>>
  /\ UNCHANGED <<handled, send_posts, checking, exceptBot>>

(* process_mention, lines 29-56, for one notification; created tells       *)
(* whether send_post made the reply or raised.                             *)
process_mention(notification, created) ==
  LET members == _read_json(members_file)
  IN /\ handled' = Append(handled, [uri |-> notification.uri,
                                    author |-> notification.author,
                                    members |-> members])
     /\ send_posts' =
          Append(send_posts,
                 [uri |-> notification.uri,
                  text |-> response(is_member(members, notification.author.did),
                                    notification.author.handle),
                  created |-> created])

(* process_mention called with the next mention notification, written by   *)
(* author.                                                                 *)
ProcessMention(author, created) ==
  /\ check = NoCheck
  /\ Len(handled) < MaxMentions
  /\ process_mention(Notification(Len(handled) + 1, 0, "mention", author),
                     created)
  /\ UNCHANGED <<members_file, added, checking, exceptBot>>

BotNext ==
  \/ \E user_data \in Members, attempts \in WriteAttempts :
       AddMember(user_data, attempts)
  \/ \E author \in Authors, created \in BOOLEAN : ProcessMention(author, created)

BotSpec == Init /\ [][BotNext]_vars

(***************************************************************************)
(* BotHandler.check_notifications and BlueskyClient.get_notifications      *)
(***************************************************************************)
members_store == <<members_file, added>>

(* The time of the service: later than every timestamp it has given out.   *)
clock ==
  LET times == {seen_at} \cup {notifications[k].indexed_at :
                                 k \in 1..Len(notifications)}
  IN 1 + CHOOSE t \in times : \A u \in times : u <= t

(* Somebody mentions the bot, or likes a post of it.                       *)
Notify(reason, author) ==
  /\ Len(notifications) < MaxMentions
  /\ notifications' =
       <<Notification(Len(notifications) + 1, clock, reason, author)>>
         \o notifications
  /\ UNCHANGED <<seen_at, last_notification_seen_at, pending, check,
                 members_store, handled, send_posts, exceptBot>>

(* The owner of the account reads the notifications in the app.            *)
SeenByApp ==
  /\ \E k \in 1..Len(notifications) : notifications[k].indexed_at > seen_at
  /\ seen_at' = clock
  /\ UNCHANGED <<notifications, last_notification_seen_at, pending, check,
                 members_store, handled, send_posts, exceptBot>>

(* check_notifications is called by the scheduler, lines 61-67.            *)
CheckNotifications ==
  /\ check.pc = "idle"
  /\ check.checks < MaxChecks
  /\ check' = [NoCheck EXCEPT !.pc = "listing", !.checks = check.checks + 1]
  /\ UNCHANGED <<notifications, seen_at, last_notification_seen_at, pending,
                 members_store, handled, send_posts, exceptBot>>

(* get_notifications returned value to check_notifications, lines 67-77.   *)
GotNotifications(value) ==
  LET found == filter_mentions(value)
  IN /\ pending' = found
     /\ check' = [check EXCEPT
                    !.lists = @ + 1,
                    !.value = IF value = <<>> THEN "empty" ELSE "new",
                    !.pc = IF found = <<>> THEN "idle" ELSE "processing"]

(* get_notifications lines 37-59: list_notifications answers.  update_seen *)
(* is given the seen-at timestamp of the response.                         *)
ListNotifications ==
  /\ check.pc = "listing"
  /\ check.depth < MaxDepth
  /\ LET listed == [notifications |-> notifications, seen_at |-> seen_at]
     IN IF last_notification_seen_at = 0
          THEN /\ seen_at' = listed.seen_at
               /\ last_notification_seen_at' = listed.seen_at
               /\ GotNotifications(<<>>)
          ELSE LET new == new_notifications(listed.notifications,
                                            last_notification_seen_at)
               IN /\ seen_at' = IF new # <<>> THEN listed.seen_at ELSE seen_at
                  /\ last_notification_seen_at' =
                       IF new # <<>> THEN listed.seen_at
                       ELSE last_notification_seen_at
                  /\ GotNotifications(new)
  /\ UNCHANGED <<notifications, members_store, handled, send_posts, exceptBot>>

(* Lines 61-68: list_notifications raises, with 'Authentication Required'  *)
(* in the message or without.                                              *)
ListFailed(authentication_required) ==
  /\ check.pc = "listing"
  /\ check.depth < MaxDepth
  /\ check' = IF authentication_required
                THEN [check EXCEPT !.lists = @ + 1, !.auth_errors = @ + 1,
                                   !.pc = "login"]
                ELSE [check EXCEPT !.lists = @ + 1, !.value = "empty",
                                   !.pc = "idle"]
  /\ UNCHANGED <<notifications, seen_at, last_notification_seen_at, pending,
                 members_store, handled, send_posts, exceptBot>>

(* Lines 66-67: self._login(), which raises when the login fails, and then *)
(* return self.get_notifications(limit), one call deeper.                  *)
Relogin(ok) ==
  /\ check.pc = "login"
  /\ check' = IF ok THEN [check EXCEPT !.depth = @ + 1, !.pc = "listing"]
                    ELSE [check EXCEPT !.value = "login_error", !.pc = "idle"]
  /\ UNCHANGED <<notifications, seen_at, last_notification_seen_at, pending,
                 members_store, handled, send_posts, exceptBot>>

(* The nested calls have used up the stack of the interpreter: the next    *)
(* call raises RecursionError, inside the try of the innermost             *)
(* get_notifications (caught at line 61, [] is returned all the way up) or *)
(* inside its except block (raised all the way up to check_notifications). *)
RecursionLimit(caught) ==
  /\ check.pc = "listing"
  /\ check.depth = MaxDepth
  /\ check' = [check EXCEPT
                 !.value = IF caught THEN "empty" ELSE "recursion_error",
                 !.pc = "idle"]
  /\ UNCHANGED <<notifications, seen_at, last_notification_seen_at, pending,
                 members_store, handled, send_posts, exceptBot>>

(* One pass of the for loop of check_notifications, lines 80-81.           *)
ProcessNext(created) ==
  /\ check.pc = "processing"
  /\ process_mention(Head(pending), created)
  /\ pending' = Tail(pending)
  /\ check' = [check EXCEPT !.pc = IF Tail(pending) = <<>> THEN "idle"
                                   ELSE "processing"]
  /\ UNCHANGED <<notifications, seen_at, last_notification_seen_at,
                 members_store, exceptBot>>

NotificationsNext ==
  \/ \E reason \in {"mention", "like"}, author \in Authors : Notify(reason, author)
  \/ SeenByApp
  \/ CheckNotifications
  \/ ListNotifications
  \/ \E authentication_required \in BOOLEAN : ListFailed(authentication_required)
  \/ \E ok \in BOOLEAN : Relogin(ok)
  \/ \E caught \in BOOLEAN : RecursionLimit(caught)
  \/ \E created \in BOOLEAN : ProcessNext(created)

NotificationsSpec == Init /\ [][NotificationsNext]_vars

(***************************************************************************)
(* _authenticate                                                           *)
(***************************************************************************)
exceptAuth == <<pipeline, composer, video, media, ai, bot, replying,
  tracking>>

(* __init__ calls _authenticate: the loop starts with attempt 0.           *)
Authenticate(c) ==
  /\ clients[c].pc = "new"
  /\ clients' = [clients EXCEPT ![c].pc = IF max_retries > 0 THEN "login"
                                          ELSE "returned"]
  /\ UNCHANGED exceptAuth

(* One pass of the loop: client.login returns, or raises.                  *)
Login(c, ok) ==
  /\ clients[c].pc = "login"
  /\ LET client == clients[c]
         tried == [client EXCEPT !.logins = @ + 1]
     IN clients' =
          [clients EXCEPT
             ![c] = IF ok
                      THEN [tried EXCEPT !.succeeded = TRUE,
                                         !.authenticated = TRUE,
                                         !.pc = "returned"]
                    ELSE IF SleepsAfter(client.attempt)
                      THEN [tried EXCEPT !.pc = "sleep"]
                    ELSE [tried EXCEPT !.attempt = @ + 1,
                                       !.pc = IF client.attempt + 1 < max_retries
                                                THEN "login" ELSE "returned"]]
  /\ UNCHANGED exceptAuth

(* time.sleep(self.retry_delay), then the next pass.                       *)
RetryDelay(c) ==
  /\ clients[c].pc = "sleep"
  /\ LET client == clients[c]
     IN clients' =
          [clients EXCEPT
             ![c] = [client EXCEPT !.slept = @ + retry_delay,
                                   !.attempt = @ + 1,
                                   !.pc = IF client.attempt + 1 < max_retries
                                            THEN "login" ELSE "returned"]]
  /\ UNCHANGED exceptAuth

AuthStep(c) ==
  \/ Authenticate(c)
  \/ \E ok \in BOOLEAN : Login(c, ok)
  \/ RetryDelay(c)

AuthNext == \E c \in AuthClients : AuthStep(c)

AuthSpec == Init /\ [][AuthNext]_vars
(* Every started _authenticate goes on: login returns or raises, and the   *)
(* sleep ends.                                                             *)
AuthFairSpec == AuthSpec /\ \A c \in AuthClients : WF_vars(AuthStep(c))

(***************************************************************************)
(* BlueskyReplier.post_reply                                               *)
(***************************************************************************)
exceptReplying == <<pipeline, composer, video, media, ai, bot, authentication,
                    tracking>>

(* Lines 84-101: the guards before the loop.                               *)
PostReply(authenticated, parent_uri, len) ==
  /\ replier.pc \in {"idle", "returned"}
  /\ replier.calls < MaxReplyCalls
  /\ LET enters == /\ authenticated
                   /\ ~TooLong(len)
                   /\ all_given(_parse_at_uri(parent_uri))
     IN replier' = [NoReplyCall EXCEPT
                      !.pc = IF enters THEN "create" ELSE "returned",
                      !.calls = replier.calls + 1,
                      !.authenticated = authenticated,
                      !.parent_uri = parent_uri,
                      !.len = len]
  /\ UNCHANGED exceptReplying

(* Lines 103-136, one pass of the loop: get_post_thread raises, or         *)
(* post.create raises, or the record is created.                           *)
CreateAttempt(thread_ok, create_ok) ==
  /\ replier.pc = "create"
  /\ LET ok == thread_ok /\ create_ok
         next == AfterAttempt(ok, replier.attempt)
     IN replier' = [replier EXCEPT
                      !.tries = @ + 1,
                      !.creates = IF thread_ok THEN @ + 1 ELSE @,
                      !.created = IF ok THEN @ + 1 ELSE @,
                      !.value = IF next = "returned" THEN ok ELSE @,
                      !.pc = next]
  /\ UNCHANGED exceptReplying

(* Lines 137-139: time.sleep(self.retry_delay), then the next pass.        *)
ReplyDelay ==
  /\ replier.pc = "sleep"
  /\ replier' = [replier EXCEPT !.slept = @ + retry_delay,
                                !.attempt = @ + 1,
                                !.pc = "create"]
  /\ UNCHANGED exceptReplying

ReplyingNext ==
  \/ \E authenticated \in BOOLEAN, parent_uri \in ParentUris, len \in ReplyLens :
       PostReply(authenticated, parent_uri, len)
  \/ \E thread_ok, create_ok \in BOOLEAN : CreateAttempt(thread_ok, create_ok)
  \/ ReplyDelay

ReplyingSpec == Init /\ [][ReplyingNext]_vars

(***************************************************************************)
(* save_processed_mentions and filter_unprocessed_mentions                 *)
(***************************************************************************)
exceptTracking == <<pipeline, composer, video, media, ai, bot, authentication,
                    replying>>

(* save_processed_mentions(mention_uris).                                  *)
SaveProcessedMentions(mention_uris, fault) ==
  /\ \E done \in save_processed_mentions(PROCESSED_FILE, mention_uris, fault) :
       /\ PROCESSED_FILE' = done.file
       /\ saved_uris' =
            IF done.value
              THEN saved_uris \cup {mention_uris[k] : k \in 1..Len(mention_uris)}
              ELSE saved_uris
       /\ tracking_call' = [op |-> "save", mention_uris |-> mention_uris,
                            ok |-> done.value, unprocessed |-> <<>>]
  /\ UNCHANGED exceptTracking

(* filter_unprocessed_mentions(mention_uris).                              *)
FilterUnprocessedMentions(mention_uris) ==
  /\ tracking_call' =
       [op |-> "filter", mention_uris |-> mention_uris, ok |-> TRUE,
        unprocessed |-> filter_unprocessed_mentions(PROCESSED_FILE, mention_uris)]
  /\ UNCHANGED <<PROCESSED_FILE, saved_uris, exceptTracking>>

TrackingNext ==
  \/ \E mention_uris \in MentionLists, fault \in {"ok", "dir", "open", "dump"} :
       SaveProcessedMentions(mention_uris, fault)
  \/ \E mention_uris \in MentionLists : FilterUnprocessedMentions(mention_uris)

TrackingSpec == Init /\ [][TrackingNext]_vars

(***************************************************************************)
(* Properties                                                              *)
(***************************************************************************)
RepliesFor(R) ==
  Cardinality({i \in 1..Len(replies) : Root(PostOf(replies[i].parent)) = R})
Count(u, file) == Cardinality({i \in 1..Len(file) : file[i] = u})
IsPrefix(s, t) == Len(s) <= Len(t) /\ SubSeq(t, 1, Len(s)) = s
ExpensiveStages == {"media", "download", "video", "compose", "model", "reply"}

(* C1: idempotence per thread root.  For every thread root R: once two     *)
(* different mentions of the thread of R have been run, every collaborator *)
(* having succeeded in the runs for that thread, exactly one reply has     *)
(* been posted into the thread and R is in the processed file exactly once.*)
C1_Idempotence ==
  \A R \in Roots :
    (Cardinality({m \in ran : Root(m) = R}) >= 2 /\ R \notin dirty)
      => (RepliesFor(R) = 1 /\ Count(Uri(R), processed) = 1)

C1_Witness ==
  /\ {"m1", "m2"} \subseteq ran
  /\ "r1" \notin dirty
  /\ RepliesFor("r1") = 1
  /\ Count(Uri("r1"), processed) = 1

(* C2: a mention whose thread root is already in the processed set (its    *)
(* thread having been fetched) ends Done: process_single_mention returns   *)
(* True.                                                                   *)
C2_ProcessedRootEndsDone ==
  (run.finished /\ run.fetched /\ run.procAtResolve) => run.result

(* C3: for a mention whose thread root is in the processed set when its    *)
(* thread is resolved, no media check, download, video analysis, prompt    *)
(* composition, model call or reply is performed.                          *)
C3_NoWorkOnProcessedRoot ==
  run.procAtResolve =>
    /\ \A i \in 1..Len(run.stages) : run.stages[i] \notin ExpensiveStages
    /\ run.creates = 0

C3_Witness ==
  /\ run.finished
  /\ run.fetched
  /\ run.procAtResolve
  /\ run.mention = "m2"

(* C4: the processed file changes only by appending the thread root of the *)
(* mention being run, at the mark step, after post_reply succeeded for     *)
(* that mention; a run that ends anywhere earlier leaves it unchanged.     *)
C4_MarkOnlyAfterReply ==
  [][processed' # processed =>
       /\ pc = "mark"
       /\ run.creates > 0
       /\ run.stages[Len(run.stages)] = "reply"
       /\ run.oks[Len(run.oks)]
       /\ replies[Len(replies)].mention = mentions[idx]
       /\ processed' = Append(processed, Uri(Root(mentions[idx])))]_vars

C4_Witness ==
  /\ run.finished
  /\ run.result
  /\ run.creates = 1
  /\ run.stages[Len(run.stages)] = "mark"
  /\ Uri(Root(run.mention)) \in Lines(processed)

(* C5: the processed file only grows (what was written stays, in place)    *)
(* and never holds a root URI twice.                                       *)
C5_GrowthOnlySet ==
  [][IsPrefix(processed, processed') /\ NoDup(processed')]_vars

C5_Witness == Len(processed) = 2 /\ cycle = 2

(* C6: failure isolation.  Whenever a mention of the batch is still        *)
(* pending, the batch goes on until every mention of it has reached a      *)
(* terminal outcome, Done or Failed, whatever happened to the mentions     *)
(* before it.                                                              *)
AllSettled == \A i \in 1..Len(mentions) : outcome[i] # "Pending"
C6_FailureIsolation == (~AllSettled) ~> AllSettled

C6_Witness ==
  /\ Len(mentions) = 2
  /\ outcome[1] = "Failed"
  /\ outcome[2] # "Pending"

(* C7: a mention that failed at the download, analysis, model or reply     *)
(* stage in an earlier cycle, its root not being in the processed set, is  *)
(* taken past thread resolution when it is returned again and its thread   *)
(* is fetched.                                                             *)
C7_RetryProceeds ==
  (run.retry /\ run.fetched /\ ~run.procAtResolve)
    => ~(run.finished /\ run.stages = <<"thread">>)

C9_ReplyToMention ==
  \A i \in 1..Len(replies) : replies[i].parent = Uri(replies[i].mention)

C9_Witness ==
  \E i \in 1..Len(replies) :
    /\ replies[i].parent = Uri(replies[i].mention)
    /\ Root(replies[i].mention) # replies[i].mention

(* C10: the stages of a run occur in the fixed order, each at most once,   *)
(* and a stage runs only if every stage before it succeeded; a reply is    *)
(* created only after a usable model answer, and the model is called only  *)
(* after a successful download.                                            *)
StageOk(s) ==
  \E i \in 1..Len(run.stages) : run.stages[i] = s /\ run.oks[i]
C10_StageOrder ==
  /\ IsPrefix(run.stages, StageOrder)
  /\ \A i \in 1..(Len(run.stages) - 1) : run.oks[i]
  /\ run.creates > 0 => StageOk("model")
  /\ (\E i \in 1..Len(run.stages) : run.stages[i] = "model")
       => StageOk("download")

LastStage == run.stages[Len(run.stages)]
StageRan(s) == \E i \in 1..Len(run.stages) : run.stages[i] = s

(* C11: when the media check succeeds without a video URL (absent or       *)
(* empty), the run ends Done at the media check: download_video is not     *)
(* called, the model is not called and no reply is created.                *)
C11_NoVideoEndsDone ==
  run.novideo =>
    /\ run.finished /\ run.result
    /\ LastStage = "media"
    /\ ~StageRan("download") /\ ~StageRan("model") /\ ~StageRan("reply")
    /\ run.creates = 0

C11_Witness ==
  /\ run.novideo
  /\ run.finished
  /\ run.result
  /\ run.mention = "m2"

(* C12: when process_video fails (video file missing, an exception inside  *)
(* the processing, or no transcript produced) the run ends Failed at the   *)
(* video stage: the model is not called and no reply is created.           *)
C12_VideoFailureEndsFailed ==
  \A i \in 1..Len(run.stages) :
    (run.stages[i] = "video" /\ ~run.oks[i]) =>
      /\ run.finished /\ ~run.result
      /\ LastStage = "video"
      /\ run.creates = 0

(* C13: when the model answer is empty, holds the key 'error', or has      *)
(* neither a non-empty 'response' nor a non-empty 'friendly_response', the *)
(* run ends Failed at the model stage, post_reply is not called and the    *)
(* thread root is not added to the processed file.                         *)
C13_UnusableAnswerEndsFailed ==
  run.unusable =>
    /\ run.finished /\ ~run.result
    /\ LastStage = "model"
    /\ ~StageRan("reply") /\ ~StageRan("mark")
    /\ run.creates = 0
    /\ Uri(Root(run.mention)) \notin Lines(processed)

C13_Witness ==
  /\ run.unusable
  /\ run.finished
  /\ ~run.result
  /\ LastStage = "model"
  /\ run.mention = "m2"

(* C14: silent failure.  A run of process_single_mention that returned     *)
(* False created no reply.                                                 *)
C14_FailedRunPostedNothing ==
  (run.finished /\ ~run.result) => run.creates = 0

(* C15: the 2-second pause occurs between any two consecutive mentions of  *)
(* a batch: when the loop is at position i, i - 1 pauses have been made,   *)
(* whatever the outcomes of the mentions before.                           *)
C15_PauseBetweenMentions ==
  idx >= 1 => sleeps >= idx - 1

(***************************************************************************)
(* Properties of the prompt composer                                       *)
(***************************************************************************)
System(c) == [role |-> "system", content |-> Text(c)]
User(c) == [role |-> "user", content |-> c]
Returned == cstate = "returned"
Segments == args.file.segments
Framed == SelectSeq(Segments, LAMBDA g : g.frames # <<>>)
ReadablePaths(g) ==
  SelectSeq([i \in 1..Len(g.frames) |-> g.frames[i].path],
            LAMBDA q : q \in ReadableImages)
HasReadableFrame(g) == ReadablePaths(g) # <<>>
ImagesOf(paths) == [i \in 1..Len(paths) |-> ImagePart(paths[i])]
(* The messages made for a transcript segment: a list content that starts  *)
(* with the segment text.                                                  *)
IsSegmentMessage(m) ==
  /\ m.role = "user"
  /\ m.content.list
  /\ m.content.items[1].type = "text"
  /\ m.content.items[1].text # <<>>
  /\ Head(m.content.items[1].text) = "Segment: "
SegmentMessages == SelectSeq(messages, IsSegmentMessage)
BlankSegmentMessages ==
  SelectSeq(SegmentMessages, LAMBDA m : IsBlank(Tail(m.content.items[1].text)))
ImageCount(m) ==
  Cardinality({i \in 1..Len(m.content.items) :
                 m.content.items[i].type = "image_url"})

(* System text S, free text F and a 2-segment transcript of which only     *)
(* segment 2 has a frame; no images and no frame directory.                *)
C16_Case ==
  /\ Returned
  /\ args.system_message # <<>> /\ args.text # <<>>
  /\ args.file.loads
  /\ Len(Segments) = 2
  /\ Segments[1].frames = <<>>
  /\ Len(Segments[2].frames) = 1
  /\ args.image_paths = <<>> /\ ~args.frame_dir.given

C17_EverySegmentWithFrames ==
  (Returned /\ args.file.loads) =>
    /\ Len(SegmentMessages) = Len(Framed)
    /\ \A i \in 1..Len(Framed) :
         /\ Tail(SegmentMessages[i].content.items[1].text) = Framed[i].text
         /\ ImageCount(SegmentMessages[i]) = Len(Framed[i].frames)

(* C17 amended: when at most 10 segments have frames, there is one message *)
(* per segment that has a readable frame, in the order of the segments,    *)
(* made of "Segment: " + text and one image per readable frame; none of    *)
(* them is omitted.  With more than 10 segments with frames at most 10     *)
(* messages are made.                                                      *)
C17_EverySegmentWithFramesAmended ==
  (Returned /\ args.file.loads) =>
    LET shown == SelectSeq(Framed, HasReadableFrame)
    IN /\ Len(SegmentMessages) <= max_segments
       /\ Len(Framed) <= max_segments =>
            /\ Len(SegmentMessages) = Len(shown)
            /\ \A i \in 1..Len(shown) :
                 SegmentMessages[i] =
                   User(Items(<<TextPart(<<"Segment: ">> \o shown[i].text)>>
                                \o ImagesOf(ReadablePaths(shown[i]))))

C17_Witness ==
  /\ Returned
  /\ Len(Framed) = max_segments
  /\ Len(Segments) = max_segments + 1
  /\ Len(SegmentMessages) = max_segments

(* C18 as stated: no message is made for a segment whose text is empty or  *)
(* only whitespace, with or without frames.                                *)
C18_BlankSegmentsSkipped ==
  (Returned /\ args.file.loads) => BlankSegmentMessages = <<>>

(* C18 amended: a segment whose text is empty or only whitespace gets no   *)
(* message when it has no readable frame (as any segment without frames);  *)
(* with a readable frame it is not skipped: at most 10 segments having     *)
(* frames, the messages with a blank segment text are exactly those of the *)
(* blank segments that have a readable frame.                              *)
C18_BlankSegmentsSkippedAmended ==
  (Returned /\ args.file.loads) =>
    LET blank == SelectSeq(Framed,
                           LAMBDA g : IsBlank(g.text) /\ HasReadableFrame(g))
    IN /\ Len(BlankSegmentMessages) <= Len(blank)
       /\ Len(Framed) <= max_segments =>
            Len(BlankSegmentMessages) = Len(blank)
       /\ \A i \in 1..Len(BlankSegmentMessages) :
            ImageCount(BlankSegmentMessages[i]) >= 1

C18_Witness ==
  /\ Returned
  /\ Len(Segments) = 2
  /\ Segments[1].text = <<" ">> /\ Segments[1].frames = <<>>
  /\ Segments[2].text = <<>> /\ HasReadableFrame(Segments[2])
  /\ Len(BlankSegmentMessages) = 1

(* C19: once a composer is constructed, whatever methods are called on it, *)
(* its list of messages is not empty, its first message is the system      *)
(* message (the text supplied, or the default one) and no other message is *)
(* a system message.                                                       *)
C19_OneSystemMessageFirst ==
  cstate # "new" =>
    /\ messages # <<>>
    /\ messages[1].role = "system"
    /\ messages[1].content \in {Text(<<"S">>), Text(DefaultSystemMessage)}
    /\ Returned => messages[1].content =
         Text(IF args.system_message # <<>> THEN args.system_message
                                            ELSE DefaultSystemMessage)
    /\ \A i \in 2..Len(messages) : messages[i].role # "system"

C19_Witness ==
  /\ cstate = "composing"
  /\ calls >= 3
  /\ Len(messages) = 4
  /\ messages[1] = System(DefaultSystemMessage)

(***************************************************************************)
(* Properties of the video processor                                       *)
(***************************************************************************)
(* C20: every frame attached to a segment of the transcript, in memory or  *)
(* in the transcript file, has the time of the middle of that segment,     *)
(* which lies within [start, end], for every segment with start <= end.    *)
FramesInSegment(t) ==
  \A i \in 1..Len(t.segments) :
    LET g == t.segments[i]
    IN (g.has_times /\ g.start <= g.end) =>
         \A j \in 1..Len(g.frames) :
           /\ g.start <= g.frames[j].time /\ g.frames[j].time <= g.end
           /\ 2 * g.frames[j].time = g.start + g.end
C20_FramesWithinSegment ==
  FramesInSegment(transcript) /\ FramesInSegment(transcript_file)

C20_Witness ==
  /\ vpc = "idle"
  /\ vruns = 2
  /\ Len(transcript_file.segments) = 1
  /\ Len(transcript_file.segments[1].frames) = 2
  /\ transcript_file.segments[1].start < transcript_file.segments[1].end
  /\ transcript_file.segments[1].start > 0

(* C21: a call of transcribe_audio that finds the transcript file returns  *)
(* the content of that file, leaves the file as it is and does not reach   *)
(* the transcription service; no step reaches the service while the        *)
(* transcript file exists.                                                 *)
C21_TranscriptCached ==
  [][/\ ((\E t \in WhisperTranscripts \cup {NoTranscript}, called \in BOOLEAN :
            Transcribe(t, called)) /\ transcript_file.ok)
          => /\ transcript' = transcript_file
             /\ transcript_file' = transcript_file
             /\ whisper_calls' = whisper_calls
     /\ transcript_file.ok => whisper_calls' <= whisper_calls]_vars

C21_Witness ==
  /\ vruns = 1
  /\ vpc = "frames"
  /\ whisper_calls = 0
  /\ transcript.ok
  /\ transcript = transcript_file
  /\ Len(transcript.segments) >= 1
  /\ Len(transcript.segments[1].frames) = 1

(* C22: a call without audio or without transcript goes on to the frame    *)
(* extraction, which then samples at fixed intervals only; the frame       *)
(* extraction, failed or not, leaves the audio path and the transcript     *)
(* path of the result as they were; the returned result tells what was     *)
(* obtained.                                                               *)
IntervalFrames(frames) ==
  \A k \in 1..Len(frames) :
    /\ frames[k].segment_index = -1
    /\ frames[k].time_sec % (2 * interval) = 0
C22_FailSoft ==
  [][/\ ((\E audio_path \in BOOLEAN : ExtractAudio(audio_path))
            /\ ~result'.audio_path)
          => vpc' = "frames" /\ ~transcript'.ok
     /\ vpc = "transcribe" => vpc' = "frames"
     /\ (vpc = "frames" /\ vpc' = "merge")
          => /\ ~transcript.ok => IntervalFrames(segment_frames')
             /\ result'.audio_path = result.audio_path
             /\ result'.transcript_path = result.transcript_path
             /\ result'.frame_paths = frame_paths(segment_frames')
     /\ (vpc = "merge" /\ vpc' = "idle")
          => /\ result' = result
             /\ result.transcript_path = transcript.ok]_vars

C22_Witness ==
  /\ vpc = "idle"
  /\ vruns = 1
  /\ ~result.audio_path
  /\ ~result.transcript_path
  /\ Len(result.frame_paths) = 2

(* C23: after the merge every sampled frame is in the flat frame_paths of  *)
(* the result, and its path and time are in the frames of the segment it   *)
(* was sampled for and of no other segment; a frame of the fixed-interval  *)
(* fallback is in the frames of no segment.                                *)
Attached(f, segment) ==
  \E k \in 1..Len(segment.frames) :
    segment.frames[k] = [path |-> f.frame_path, time |-> f.time_sec]
C23_FramesAttached ==
  vpc = "idle" =>
    \A k \in 1..Len(segment_frames) :
      /\ \E n \in 1..Len(result.frame_paths) :
           result.frame_paths[n] = segment_frames[k].frame_path
      /\ segment_frames[k].segment_index # -1 => transcript.ok
      /\ \A j \in 1..Len(transcript.segments) :
           Attached(segment_frames[k], transcript.segments[j])
             <=> segment_frames[k].segment_index = j - 1

C23_Witness ==
  /\ vpc = "idle"
  /\ Len(transcript.segments) = 2
  /\ Len(segment_frames) = 2
  /\ Len(transcript.segments[1].frames) = 1
  /\ Len(transcript.segments[2].frames) = 1

(***************************************************************************)
(* Properties of the media detector and the video downloader               *)
(***************************************************************************)
(* The embeds the check paths of detect_post_media resolve to, in order.   *)
FoundEmbeds(p) ==
  SelectSeq([k \in 1..Len(check_paths) |-> deep_get(p, check_paths[k])], Truthy)
MediumFields ==
  {<<"media", "items">>, <<"images">>, <<"external", "thumb">>,
   <<"media", "video">>, <<"video">>}
(* No medium is there: every field that would hold one is missing or null, *)
(* under every check path and at record.blob.                              *)
NoMedium(p) ==
  /\ \A k \in 1..Len(check_paths), f \in MediumFields :
       deep_get(deep_get(p, check_paths[k]), f).kind = "null"
  /\ deep_get(p, <<"record", "blob">>).kind = "null"

(* C24: for a post in which every field that would hold a medium is        *)
(* missing or null, detect_post_media does not raise and returns           *)
(* has_media = false.                                                      *)
C24_MalformedNoMedia ==
  (post # NoMediaPost /\ NoMedium(post)) =>
    ~media_info.raised /\ ~media_info.has_media

(* C25: when more than one check path resolves to an embed and all of them *)
(* hold the same media, only the first path contributes to media_count,    *)
(* media_urls and raw_media.                                               *)
C25_FirstPathWins ==
  LET found == FoundEmbeds(post)
      first == CheckEmbed(NoMedia, found[1])
  IN (/\ post # NoMediaPost
      /\ Len(found) >= 2
      /\ \A k \in 1..Len(found) : found[k] = found[1]
      /\ deep_get(post, <<"record", "blob">>).kind = "null"
      /\ ~media_info.raised)
       => /\ media_info.media_count = first.media_count
          /\ media_info.media_urls = first.media_urls
          /\ media_info.raw_media = first.raw_media

(* The value a path of extract_video_url names in a post, None when a step *)
(* of the path is missing.                                                 *)
RECURSIVE PathValue(_, _)
PathValue(current, path) ==
  IF path = <<>> THEN current
  ELSE LET key == Head(path)
       IN IF "index" \in DOMAIN key
            THEN IF current.kind = "list" /\ Len(current.l) > key.index
                   THEN PathValue(current.l[key.index + 1], Tail(path))
                   ELSE Null
          ELSE IF hasattr(current, key.attr)
            THEN PathValue(getattr(current, key.attr), Tail(path))
          ELSE Null
DirectUrls(p) ==
  SelectSeq([k \in 1..Len(video_check_paths) |-> PathValue(p, video_check_paths[k])],
            LAMBDA url : url.kind = "str" /\ url.s # <<>>)

(* C26: after download_post_video has chosen, the URL to download is the   *)
(* direct URL of the first checked path that holds one, whatever the       *)
(* playlist field of the embed holds; without a direct URL it is the       *)
(* playlist URL or none.                                                   *)
C26_DirectUrlPrecedence ==
  dpc # "idle" =>
    IF DirectUrls(post) # <<>>
      THEN url_to_use = DirectUrls(post)[1]
      ELSE url_to_use \in {Null, PathValue(post, <<Key("embed"), Key("playlist")>>)}

(* C27: when download_video has returned None, no file is at the output    *)
(* path.                                                                   *)
C27_NoPartialFile ==
  (dpc = "returned" /\ Truthy(url_to_use) /\ ~downloaded) => output_file = "absent"

(***************************************************************************)
(* Properties of the model client                                          *)
(***************************************************************************)
(* The messages of the fallback call for the input msgs: the same messages *)
(* in the same order, the instructions added to the text of a system       *)
(* message, and a system message with them in front when there is none.    *)
Instructed(out, msgs) ==
  IF \E k \in 1..Len(msgs) : msgs[k].role = "system"
    THEN /\ Len(out) = Len(msgs)
         /\ \A k \in 1..Len(msgs) :
              IF msgs[k].role = "system"
                THEN /\ out[k].role = "system"
                     /\ out[k].content.text
                          = msgs[k].content.text \o <<" ">> \o JsonFormat
                ELSE out[k] = msgs[k]
    ELSE /\ Len(out) = Len(msgs) + 1
         /\ out[1].role = "system"
         /\ out[1].content.text = DefaultSystemMessage \o <<" ">> \o JsonFormat
         /\ \A k \in 1..Len(msgs) : out[k + 1] = msgs[k]

HasPiece(text, piece) == \E k \in 1..Len(text) : text[k] = piece
Dids(members) == {members[k].did : k \in 1..Len(members)}

(* C29: every mention process_mention has handled got exactly one reply    *)
(* sent to its own post; the reply has the 'not currently a member' and    *)
(* 'join' text exactly when the DID of the author was not in the members   *)
(* store at that moment, the 'Thanks for the mention' text without the     *)
(* non-member text exactly when it was.                                    *)
C29_MembershipReplies ==
  /\ Len(send_posts) = Len(handled)
  /\ \A k \in 1..Len(handled) :
       LET text == send_posts[k].text
           member == handled[k].author.did \in Dids(handled[k].members)
       IN /\ send_posts[k].uri = handled[k].uri
          /\ (HasPiece(text, "not currently a member") /\ HasPiece(text, "join"))
               = ~member
          /\ (HasPiece(text, "Thanks for the mention")
                /\ ~HasPiece(text, "not currently a member")) = member

C29_Witness ==
  /\ Len(handled) = 2
  /\ handled[1].author.did = handled[2].author.did
  /\ handled[1].members = <<>>
  /\ HasPiece(send_posts[1].text, "not currently a member")
  /\ HasPiece(send_posts[2].text, "Thanks for the mention")
  /\ send_posts[1].created /\ send_posts[2].created

(***************************************************************************)
(* Properties of the authentication                                        *)
(***************************************************************************)
AuthBounded(client) ==
  /\ client.logins <= max_retries
  /\ client.succeeded => client.pc = "returned"
  /\ client.authenticated = client.succeeded
  /\ client.pc = "returned" =>
       /\ client.logins >= 1
       /\ client.slept = retry_delay * (client.logins - 1)
       /\ ~client.succeeded => client.logins = max_retries

(* C30: _authenticate makes at most max_retries login attempts, stops at   *)
(* the first one that succeeds, has slept retry_delay between two          *)
(* attempts and not after the last, leaves authenticated true exactly when *)
(* an attempt succeeded, and returns.                                      *)
C30_BoundedAuthentication ==
  /\ [](\A c \in AuthClients : AuthBounded(clients[c]))
  /\ \A c \in AuthClients : (clients[c].pc = "login") ~> (clients[c].pc = "returned")

C30_Witness ==
  /\ clients["BlueskyReplier"].pc = "returned"
  /\ clients["BlueskyReplier"].logins = max_retries
  /\ clients["BlueskyReplier"].authenticated
  /\ clients["BlueskyMentionsChecker"].pc = "returned"
  /\ ~clients["BlueskyMentionsChecker"].authenticated
  /\ clients["BlueskyMentionsChecker"].slept = 2 * retry_delay

(* C31: at most one reply per thread root under arbitrary failures.  Over  *)
(* every sequence of poll cycles, batches and stage failures no thread     *)
(* root ever has more than one reply posted for its mentions; and a        *)
(* mention whose root already has its thread file saved ends at thread     *)
(* resolution: it is Failed there, nothing is posted and no later stage    *)
(* is entered.                                                             *)
RootThreadFile(m) == <<Did[Root(m)], Root(m)>>
C31_OneReplyPerRoot ==
  /\ [](\A R \in Roots : RepliesFor(R) <= 1)
  /\ [][(pc = "thread" /\ RootThreadFile(mentions[idx]) \in threadFiles)
          => /\ pc' # "dedup"
             /\ replies' = replies
             /\ run'.finished /\ ~run'.result
             /\ run'.stages = <<"thread">>]_vars

C31_Witness ==
  /\ RepliesFor("r1") = 1
  /\ Uri("r1") \notin Lines(processed)
  /\ "r1" \in dirty
  /\ "m1" \in ran
  /\ run.mention = "m2" /\ run.finished /\ run.fetched
  /\ run.stages = <<"thread">>

(* C32: running process_video again on the same video is idempotent on    *)
(* the transcript: whatever the number of runs, every segment of the       *)
(* persisted transcript has at most one attached frame.                    *)
C32_RerunIdempotent ==
  \A i \in 1..Len(transcript_file.segments) :
    Len(transcript_file.segments[i].frames) <= 1

(* C33: thread root computation.  For the thread of a mention with n >= 0  *)
(* ancestors extract_thread_structure gives the mention as main post and   *)
(* the ancestors as parent_posts, oldest first, and get_root_post_uri      *)
(* gives the URI of the topmost ancestor (of the mention itself when it    *)
(* has none); two mentions of one reply chain, at whatever depth, get the  *)
(* same root URI.                                                          *)
RECURSIVE Ancestors(_)
Ancestors(p) ==
  IF Parent[p] = NoPost THEN <<>> ELSE Append(Ancestors(Parent[p]), Parent[p])
RootUriOf(m) == get_root_post_uri(extract_thread_structure(ThreadResponse(m)))
C34_BoundedReply ==
  /\ replier.tries <= max_retries
  /\ replier.creates <= replier.tries
  /\ replier.created <= 1
  /\ replier.created = 1 => replier.pc = "returned" /\ replier.value
  /\ replier.slept = retry_delay * replier.attempt
  /\ replier.pc = "create" => replier.tries = replier.attempt
  /\ (replier.pc = "returned" /\ replier.tries > 0)
       => replier.slept = retry_delay * (replier.tries - 1)
  /\ replier.pc = "returned" => (replier.value <=> replier.created = 1)

C34_Witness ==
  /\ replier.pc = "returned"
  /\ replier.value
  /\ replier.tries = max_retries
  /\ replier.creates = 2
  /\ replier.slept = 2 * retry_delay

(* C35: counting invariant of detect_post_media.  In what it returns       *)
(* has_media is true exactly when media_count is above 0, media_count is   *)
(* the length of raw_media, media_urls is not longer than media_count, and *)
(* no type is twice in media_types.                                        *)
C35_Counting ==
  (post # NoMediaPost /\ ~media_info.raised) =>
    /\ media_info.has_media <=> media_info.media_count > 0
    /\ media_info.media_count = Len(media_info.raw_media)
    /\ Len(media_info.media_urls) <= media_info.media_count
    /\ \A i, j \in 1..Len(media_info.media_types) :
         i # j => media_info.media_types[i] # media_info.media_types[j]

C35_Witness ==
  /\ post # NoMediaPost
  /\ ~media_info.raised
  /\ media_info.media_count = 2
  /\ Len(media_info.media_types) = 1
  /\ Len(media_info.media_urls) = 1

(***************************************************************************)
(* Properties of the notification check and of the members store           *)
(***************************************************************************)
(* C36: over the successive check_notifications cycles of the bot          *)
(* process_mention is called at most once, and a reply sent at most once,  *)
(* for any one mention notification.                                       *)
C36_HandledOnce ==
  /\ \A i, j \in 1..Len(handled) : i # j => handled[i].uri # handled[j].uri
  /\ \A i, j \in 1..Len(send_posts) :
       i # j => send_posts[i].uri # send_posts[j].uri

(* C37: get_notifications ends after a bounded number of re-logins: a call *)
(* all of whose listings failed with 'Authentication Required' and all of  *)
(* whose re-logins succeeded has returned, with an empty list.             *)
C37_ReloginTerminates ==
  /\ check.depth <= MaxDepth
  /\ (/\ check.pc = "idle"
      /\ check.lists > 0
      /\ check.auth_errors = check.lists
      /\ check.depth = check.auth_errors)
       => check.value = "empty"

(* C38: after any sequence of add_member calls on a members file that was  *)
(* empty, the store holds at most one record per DID, and is_member(d) is  *)
(* true exactly for the DIDs d some earlier add_member returned True for.  *)
C38_MembersUnique ==
  LET members == _read_json(members_file)
  IN /\ \A i, j \in 1..Len(members) : i # j => members[i].did # members[j].did
     /\ \A user_data \in Members :
          is_member(members, user_data.did) <=> user_data.did \in added

(***************************************************************************)
(* Properties of the file of processed mentions                            *)
(***************************************************************************)
(* C39: a URI that save_processed_mentions has saved stays in the          *)
(* processed set whatever is saved later, and filter_unprocessed_mentions  *)
(* returns, in the order of its argument, exactly the URIs of the argument *)
(* that no successful save so far was given.                               *)
C39_ProcessedSet ==
  /\ saved_uris \subseteq load_processed_mentions(PROCESSED_FILE)
  /\ tracking_call.op = "filter"
       => tracking_call.unprocessed =
            SelectSeq(tracking_call.mention_uris,
                      LAMBDA uri : uri \notin saved_uris)

====
